---- MODULE Spec2Model ----
(***************************************************************************)
(* Document-analysis core of vibe-code-demo-app: result normalisation      *)
(* (lib/review.ts, lib/n8n.ts, lib/company-llm.ts), the model-calling      *)
(* paths and the secure pipeline (lib/secure-review.ts), the rule engines  *)
(* (lib/rules.ts) and page splitting (lib/local-patterns.ts).              *)
(*                                                                         *)
(* Every specification below runs one operation of the program on inputs   *)
(* drawn from bounded sets: pc is the position of the run, inp the inputs  *)
(* (and the answers of the external collaborators once they are known),    *)
(* out the value the operation returned or the error it threw.             *)
(***************************************************************************)
EXTENDS Integers, Sequences, FiniteSets, TLC

VARIABLES pc, inp, out

vars == <<pc, inp, out>>

(***************************************************************************)
(* JavaScript values.  Every value is a record tagged by k, so that any    *)
(* two values can be compared.  A string is a sequence of atoms: an atom   *)
(* is one character ("1", "-", " ") or a whole word whose letters never    *)
(* matter to the code ("typo", "Intro").                                   *)
(***************************************************************************)
Undef == [k |-> "undefined"]
Null == [k |-> "null"]
NaN == [k |-> "NaN"]
Num(n) == [k |-> "number", n |-> n]
\* d x 10^e for one digit d and e >= 21: the numbers whose ToString is in
\* exponent notation
Sci(neg, d, e) == [k |-> "number", neg |-> neg, d |-> d, e |-> e]
IsSci(v) == v.k = "number" /\ "e" \in DOMAIN v
Str(cs) == [k |-> "string", cs |-> cs]
Arr(el) == [k |-> "array", el |-> el]
Throw(name, msg) == [k |-> "throw", name |-> name, msg |-> msg]

IsThrow(v) == v.k = "throw"
IsArray(v) == v.k = "array"
EmptyStr == Str(<< >>)

\* ToBoolean: undefined, null, NaN, 0 and '' are falsy.
Truthy(v) ==
  CASE v.k \in {"undefined", "null", "NaN"} -> FALSE
    [] v.k = "number" -> IsSci(v) \/ v.n # 0
    [] v.k = "string" -> v.cs # << >>
    [] v.k = "boolean" -> v.b
    [] OTHER -> TRUE

Digits == <<"0", "1", "2", "3", "4", "5", "6", "7", "8", "9">>
IsDigit(a) == \E i \in 1..10 : Digits[i] = a
DigitVal(a) == (CHOOSE i \in 1..10 : Digits[i] = a) - 1

RECURSIVE NatChars(_)
NatChars(n) == IF n < 10 THEN <<Digits[n + 1]>>
               ELSE NatChars(n \div 10) \o <<Digits[(n % 10) + 1]>>

\* ToString of the values the model uses (String(x), and the implicit
\* conversion parseInt applies to its argument).
ToStringChars(v) ==
  CASE v.k = "undefined" -> <<"undefined">>
    [] v.k = "null" -> <<"null">>
    [] v.k = "NaN" -> <<"NaN">>
    [] v.k = "number" ->
         IF IsSci(v) THEN (IF v.neg THEN <<"-">> ELSE << >>) \o <<v.d, "e", "+">> \o NatChars(v.e)
         ELSE IF v.n < 0 THEN <<"-">> \o NatChars(-v.n) ELSE NatChars(v.n)
    [] v.k = "string" -> v.cs
    [] OTHER -> <<"[object Object]">>

RECURSIVE SkipSpace(_)
SkipSpace(cs) == IF cs # << >> /\ Head(cs) = " " THEN SkipSpace(Tail(cs)) ELSE cs

RECURSIVE DigitPrefix(_)
DigitPrefix(cs) == IF cs # << >> /\ IsDigit(Head(cs))
                   THEN <<Head(cs)>> \o DigitPrefix(Tail(cs)) ELSE << >>

RECURSIVE DigitsVal(_, _)
DigitsVal(cs, acc) == IF cs = << >> THEN acc
                      ELSE DigitsVal(Tail(cs), 10 * acc + DigitVal(Head(cs)))

RECURSIVE SkipZeros(_)
SkipZeros(cs) == IF Len(cs) > 1 /\ Head(cs) = "0" THEN SkipZeros(Tail(cs)) ELSE cs

\* The Number a run of decimal digits denotes.  A run of at most nine
\* significant digits is a Num.  A run of 22 or more digits is at least
\* 10^21; the inputs hold such runs only in the form of one digit followed
\* by zeros, which is the double d x 10^e.  Runs of 10 to 21 significant
\* digits are outside the inputs.
digitsToNumber(neg, ds) ==
  LET sig == SkipZeros(ds)
  IN IF Len(sig) >= 22 /\ \A i \in 2..Len(sig) : sig[i] = "0"
     THEN Sci(neg, sig[1], Len(sig) - 1)
     ELSE Num(IF neg THEN -DigitsVal(sig, 0) ELSE DigitsVal(sig, 0))

\* parseInt(x, 10): the argument is converted to a string, leading white
\* space is skipped, one sign is read, then the longest run of decimal
\* digits; NaN when that run is empty.
parseInt(v) ==
  LET s == SkipSpace(ToStringChars(v))
      neg == s # << >> /\ Head(s) = "-"
      t == IF s # << >> /\ Head(s) \in {"-", "+"} THEN Tail(s) ELSE s
      d == DigitPrefix(t)
  IN IF d = << >> THEN NaN ELSE digitsToNumber(neg, d)

Max(a, b) == IF a >= b THEN a ELSE b

\* Math.max(1, p) for a number p
atLeastOne(p) == IF IsSci(p) THEN (IF p.neg THEN Num(1) ELSE p) ELSE Num(Max(1, p.n))

coercePage_NoFloor(page) ==
  LET p == parseInt(page)
  IN IF Truthy(p) THEN p ELSE Num(1)

\* Math.max(1, parseInt(page, 10) || 1)
coercePage(page) ==
  LET p == parseInt(page)
  IN IF Truthy(p) THEN atLeastOne(p) ELSE Num(1)

\* String(x || '')
coerceString(x) == IF Truthy(x) THEN Str(ToStringChars(x)) ELSE EmptyStr


(***************************************************************************)
(* Objects.  A raw issue and a raw result are objects whose absent         *)
(* properties read as undefined; reading a property of null or undefined   *)
(* throws a TypeError, reading one of another primitive gives undefined.   *)
(***************************************************************************)
Issue(page, type, message, original, suggestion, locationHint) ==
  [k |-> "object", page |-> page, type |-> type, message |-> message,
   original |-> original, suggestion |-> suggestion, locationHint |-> locationHint]

Summary(issueCount, pagesAffected) ==
  [k |-> "object", issueCount |-> issueCount, pagesAffected |-> pagesAffected]

Result(fileName, issues, summary) ==
  [k |-> "object", fileName |-> fileName, issues |-> issues, summary |-> summary]

IsObject(v) == v.k = "object"
Nullish(v) == v.k \in {"undefined", "null"}
TypeError == Throw("TypeError", <<"Cannot read or set properties of a non-object">>)

Word(w) == Str(<<w>>)

\* The closed vocabulary of the specification's data model.
Vocabulary ==
  {"typo", "spacing", "punctuation", "capitalization", "alignment", "font",
   "formatting", "cross_reference", "numbering", "reference", "logic_point", "other"}

\* lib/review.ts:88
allowedTypes ==
  {"typo", "spacing", "punctuation", "capitalization", "alignment", "font",
   "formatting", "other"}

\* lib/n8n.ts:238
n8nAllowedTypes ==
  {"typo", "spacing", "punctuation", "capitalization", "alignment", "font",
   "formatting", "cross_reference", "other"}

\* lib/company-llm.ts:255
validTypes ==
  {"typo", "spacing", "punctuation", "capitalization", "alignment", "font",
   "formatting", "cross_reference", "logic_point", "other"}

\* allowed.includes(type) ? type : 'other'
coerceType(allowed, type) ==
  IF type.k = "string" /\ Len(type.cs) = 1 /\ type.cs[1] \in allowed
  THEN type ELSE Word("other")

\* issue.<name> for a non-nullish issue
Prop(issue, name) == IF IsObject(issue) /\ name \in DOMAIN issue THEN issue[name] ELSE Undef

\* The object literal both normalizers build for one raw issue.
issueLiteral(allowed, issue) ==
  IF Nullish(issue) THEN TypeError
  ELSE Issue(coercePage(Prop(issue, "page")),
             coerceType(allowed, Prop(issue, "type")),
             coerceString(Prop(issue, "message")),
             coerceString(Prop(issue, "original")),
             coerceString(Prop(issue, "suggestion")),
             coerceString(Prop(issue, "locationHint")))

\* CompanyLLMService.normalizeIssue
normalizeIssue(issue) == issueLiteral(validTypes, issue)

\* [...new Set(xs)]: the distinct elements in order of first occurrence.
RECURSIVE Uniq(_)
Uniq(xs) ==
  IF xs = << >> THEN << >>
  ELSE LET init == Uniq(SubSeq(xs, 1, Len(xs) - 1))
           last == xs[Len(xs)]
       IN IF \E i \in 1..Len(init) : init[i] = last THEN init ELSE Append(init, last)

MapIssues_Deduplicated(allowed, el) ==
  LET r == [i \in 1..Len(el) |-> issueLiteral(allowed, el[i])]
  IN IF \E i \in 1..Len(el) : IsThrow(r[i])
     THEN r[CHOOSE i \in 1..Len(el) : IsThrow(r[i]) /\ \A j \in 1..(i - 1) : ~IsThrow(r[j])]
     ELSE Arr(Uniq(r))

\* Array.prototype.map: the first callback that throws ends the map.
MapIssues(allowed, el) ==
  LET r == [i \in 1..Len(el) |-> issueLiteral(allowed, el[i])]
  IN IF \E i \in 1..Len(el) : IsThrow(r[i])
     THEN r[CHOOSE i \in 1..Len(el) : IsThrow(r[i]) /\ \A j \in 1..(i - 1) : ~IsThrow(r[j])]
     ELSE Arr(r)

pagesOf(issues) == [i \in 1..Len(issues) |-> issues[i].page]

\* The body shared by the three copies of normalizeData: data is mutated in
\* place and returned, so properties the function does not assign survive.
normalizeWith(allowed, data, fileName) ==
  IF ~IsObject(data) THEN TypeError
  ELSE LET raw == IF IsArray(Prop(data, "issues")) THEN data.issues.el ELSE << >>
           issues == MapIssues(allowed, raw)
           summary == IF Truthy(Prop(data, "summary")) THEN data.summary
                      ELSE [k |-> "object"]
       IN IF IsThrow(issues) THEN issues
          ELSE IF ~IsObject(summary) THEN TypeError
          ELSE [g \in DOMAIN data \cup {"fileName", "issues", "summary"} |->
                  CASE g = "fileName" -> fileName
                    [] g = "issues" -> issues
                    [] g = "summary" ->
                         [f \in DOMAIN summary \cup {"issueCount", "pagesAffected"} |->
                            CASE f = "issueCount" -> Num(Len(issues.el))
                              [] f = "pagesAffected" -> Arr(Uniq(pagesOf(issues.el)))
                              [] OTHER -> summary[f]]
                    [] OTHER -> data[g]]

\* lib/review.ts normalizeData (unnamed/part_009 and pages/api/review.ts hold
\* the same body)
normalizeData(data, fileName) == normalizeWith(allowedTypes, data, fileName)

\* lib/n8n.ts normalizeData
n8nNormalizeData(data, fileName) == normalizeWith(n8nAllowedTypes, data, fileName)


(***************************************************************************)
(* Raw inputs of the normalizers: what JSON.parse can hand them.           *)
(***************************************************************************)
MaxIssues == 2

RawPages ==
  {Undef, Null, Num(-1), Num(0), Num(1), Num(2), Num(12),
   Str(<<"2">>), Str(<<" ", "3">>), Str(<<"2", ".", "5">>), Str(<<"-", "4">>),
   Str(<<"1", "2", "x">>), Str(<<"p", "2">>), EmptyStr,
   Str(<<"0", "7">>), Str(<<"3">> \o [i \in 1..21 |-> "0"]),
   Str(<<"-", "1">> \o [i \in 1..22 |-> "0"])}

RawTypes == {Word(t) : t \in Vocabulary} \cup {Word("bogus"), Word("Typo"), Undef, Num(1)}

RawStrings == {Undef, Null, EmptyStr, Str(<<"see", " ", "Section", " ", "2">>), Num(0), Num(5)}

PlainIssue == Issue(Num(1), Word("typo"), Word("m"), Word("o"), Word("s"), Word("h"))

RawIssues ==
  {[PlainIssue EXCEPT !.page = p] : p \in RawPages}
    \cup {[PlainIssue EXCEPT !.type = t] : t \in RawTypes}
    \cup {[PlainIssue EXCEPT !.message = m, !.locationHint = m] : m \in RawStrings}
    \cup {Null, Num(7), [k |-> "object", page |-> Num(3), screenshotUrl |-> Word("u")]}

RECURSIVE SeqsUpTo(_, _)
SeqsUpTo(S, n) ==
  IF n = 0 THEN {<< >>}
  ELSE LET shorter == SeqsUpTo(S, n - 1)
       IN shorter \cup {Append(q, x) : q \in {r \in shorter : Len(r) = n - 1}, x \in S}

\* Summaries a model response can carry: absent, wrong, a primitive, with an
\* extra property.
RawSummaries ==
  {Undef, Null, Summary(Num(7), Arr(<<Num(9)>>)), Summary(Num(0), Arr(<< >>)), Num(3),
   [k |-> "object", issueCount |-> Num(1), pagesAffected |-> Word("all"), note |-> Word("n")]}

RawData ==
  {Result(Undef, Arr(el), Undef) : el \in SeqsUpTo(RawIssues, MaxIssues)}
    \cup {Result(Word("model.pdf"), Arr(el), sm) :
            el \in SeqsUpTo({PlainIssue, [PlainIssue EXCEPT !.page = Num(2)]}, MaxIssues),
            sm \in RawSummaries}
    \cup {Result(Undef, Undef, Undef), Result(Undef, Word("none"), Summary(Num(2), Arr(<< >>))),
          Null, Num(5)}

FileNames == {Word("a.pdf")}

(***************************************************************************)
(* SpecNormalize: one normalizer is applied to a raw value, and then once  *)
(* more to what it returned.  out is the sequence of values returned.      *)
(***************************************************************************)
InitNormalize ==
  /\ pc = "raw"
  /\ inp \in [data : RawData, fileName : FileNames]
  /\ out = << >>

\* lib/review.ts normalizeData(data, fileName)
NormalizeData ==
  /\ pc = "raw"
  /\ pc' = "normalizeData"
  /\ out' = <<normalizeData(inp.data, inp.fileName)>>
  /\ UNCHANGED inp

\* lib/n8n.ts normalizeData(data, fileName)
N8nNormalizeData ==
  /\ pc = "raw"
  /\ pc' = "n8nNormalizeData"
  /\ out' = <<n8nNormalizeData(inp.data, inp.fileName)>>
  /\ UNCHANGED inp

\* CompanyLLMService.normalizeIssue on one element of the raw issues array
NormalizeIssue ==
  /\ pc = "raw"
  /\ IsObject(inp.data)
  /\ IsArray(inp.data.issues)
  /\ \E i \in 1..Len(inp.data.issues.el) :
       /\ inp' = [inp EXCEPT !.data = inp.data.issues.el[i]]
       /\ out' = <<normalizeIssue(inp.data.issues.el[i])>>
  /\ pc' = "normalizeIssue"

\* The same normalizer applied to its own result.
NormalizeAgain ==
  /\ pc \in {"normalizeData", "n8nNormalizeData", "normalizeIssue"}
  /\ Len(out) = 1
  /\ ~IsThrow(out[1])
  /\ out' = Append(out,
                   CASE pc = "normalizeData" -> normalizeData(out[1], inp.fileName)
                     [] pc = "n8nNormalizeData" -> n8nNormalizeData(out[1], inp.fileName)
                     [] OTHER -> normalizeIssue(out[1]))
  /\ UNCHANGED <<pc, inp>>

NextNormalize == NormalizeData \/ N8nNormalizeData \/ NormalizeIssue \/ NormalizeAgain

SpecNormalize == InitNormalize /\ [][NextNormalize]_vars


(***************************************************************************)
(* Model responses.  The text of a response is a sequence of tokens: the   *)
(* two code fences (three backquotes, followed by json or not), a         *)
(* newline, a piece of prose, and a JSON document (json, with the value   *)
(* JSON.parse gives for it).                                               *)
(***************************************************************************)
FenceJson == [t |-> "fence_json"]
Fence == [t |-> "fence"]
Nl == [t |-> "\n"]
Prose == [t |-> "prose"]
Json(v) == [t |-> "json", v |-> v]

RECURSIVE Without(_, _)
Without(text, toks) ==
  IF text = << >> THEN << >>
  ELSE IF Head(text) \in toks THEN Without(Tail(text), toks)
       ELSE <<Head(text)>> \o Without(Tail(text), toks)

\* text.replace(/<tok>\n?/g, empty): the token and a newline right after it
RECURSIVE WithoutAndNl(_, _)
WithoutAndNl(text, tok) ==
  IF text = << >> THEN << >>
  ELSE IF Head(text) = tok
       THEN IF Tail(text) # << >> /\ Head(Tail(text)) = Nl
            THEN WithoutAndNl(Tail(Tail(text)), tok)
            ELSE WithoutAndNl(Tail(text), tok)
       ELSE <<Head(text)>> \o WithoutAndNl(Tail(text), tok)

SyntaxError == Throw("SyntaxError", <<"Unexpected token in JSON">>)

\* JSON.parse: white space around the one document is allowed, anything else
\* (prose, nothing at all, two documents) is a SyntaxError.
JSONparse(text) ==
  LET body == Without(text, {Nl})
  IN IF Len(body) = 1 /\ body[1].t = "json" THEN body[1].v ELSE SyntaxError

\* raw.replace(/<fence>json|<fence>/g, "").trim()   (review.ts:69, n8n.ts:211)
stripFences(raw) == Without(raw, {FenceJson, Fence})

\* content.replace(/<fence>json\n?/g, "").replace(/<fence>\n?/g, "").trim()
\* (company-llm.ts:219-222)
cleanedContent(content) == WithoutAndNl(WithoutAndNl(content, FenceJson), Fence)

\* raw.match(/<fence>json\n([\s\S]*?)\n<fence>/): the leftmost opening fence that has a
\* closing one, and the nearest closing one for it.
fencedBlock(raw) ==
  LET Opens(i) == i + 1 <= Len(raw) /\ raw[i] = FenceJson /\ raw[i + 1] = Nl
      Closes(j) == j + 1 <= Len(raw) /\ raw[j] = Nl /\ raw[j + 1] = Fence
      Starts == {i \in 1..Len(raw) : Opens(i) /\ \E j \in (i + 1)..Len(raw) : Closes(j)}
  IN IF Starts = {} THEN Undef
     ELSE LET i == CHOOSE a \in Starts : \A b \in Starts : a <= b
              j == CHOOSE a \in (i + 1)..Len(raw) :
                     Closes(a) /\ \A b \in (i + 1)..Len(raw) : Closes(b) => a <= b
          IN [k |-> "match", group1 |-> SubSeq(raw, i + 2, j - 1)]

\* secure-review.ts:345-351
cleanedSecure(raw) ==
  LET jsonMatch == fencedBlock(raw)
  IN IF jsonMatch.k = "match" /\ jsonMatch.group1 # << >>
     THEN jsonMatch.group1
     ELSE stripFences(raw)

Error(msg) == Throw("Error", msg)
ModelTimeout == Error(<<"Model timeout">>)
BadModelJson == Error(<<"Bad model JSON">>)
InvalidJsonResponse == Error(<<"Failed to get a valid JSON response from the model.">>)
MissingApiKey == Error(<<"Server missing GEMINI_API_KEY">>)
ApiError == Error(<<"[GoogleGenerativeAI Error]">>)

\* What Promise.race([modelPromise, timeoutPromise]) settles with.
raceResult(model) ==
  CASE model.o = "timeout" -> ModelTimeout
    [] model.o = "error" -> ApiError
    [] OTHER -> model

\* lib/review.ts callGemini
callGemini(apiKey, model) ==
  IF ~apiKey THEN MissingApiKey
  ELSE LET result == raceResult(model)
       IN IF IsThrow(result) THEN result
          ELSE LET parsed == JSONparse(stripFences(result.text))
               IN IF IsThrow(parsed) THEN BadModelJson ELSE parsed

\* unnamed/part_009 callGemini: the race and the parse sit in one try block
\* whose catch throws the same error for every failure.
callGeminiTry(apiKey, model) ==
  IF ~apiKey THEN MissingApiKey
  ELSE LET result == raceResult(model)
           parsed == IF IsThrow(result) THEN result
                     ELSE JSONparse(stripFences(result.text))
       IN IF IsThrow(parsed) THEN InvalidJsonResponse ELSE parsed

\* lib/n8n.ts callGemini: the inner catch throws an error quoting the cleaned
\* text, the outer catch replaces it.
n8nCallGemini(apiKey, model) ==
  IF ~apiKey THEN MissingApiKey
  ELSE LET result == raceResult(model)
           parsed == IF IsThrow(result) THEN result
                     ELSE LET p == JSONparse(stripFences(result.text))
                          IN IF IsThrow(p)
                             THEN [k |-> "throw", name |-> "Error",
                                   msg |-> <<"Failed to parse JSON response from the model. Raw response: ">>,
                                   text |-> stripFences(result.text)]
                             ELSE p
       IN IF IsThrow(parsed) THEN InvalidJsonResponse ELSE parsed

\* SecureReviewService.callGeminiSecure: the parsed value is returned as it is.
callGeminiSecure(apiKey, model) ==
  IF ~apiKey THEN MissingApiKey
  ELSE LET result == raceResult(model)
           parsed == IF IsThrow(result) THEN result
                     ELSE JSONparse(cleanedSecure(result.text))
       IN IF IsThrow(parsed) THEN InvalidJsonResponse ELSE parsed


(***************************************************************************)
(* CompanyLLMService (lib/company-llm.ts).  fetch is the collaborator: it  *)
(* answers with a body, with an HTTP error, fails, or is aborted by the    *)
(* timer of callLLM.                                                       *)
(***************************************************************************)
LLMTimeout == Error(<<"LLM request timeout">>)
LLMApiError == Error(<<"LLM API error (500): ", "upstream">>)
FetchFailed == Throw("TypeError", <<"fetch failed">>)
LLMConfigMissing == Error(<<"Company LLM configuration missing.">>)

\* CompanyLLMService.callLLM
callLLM(fetch) ==
  CASE fetch.o = "timeout" -> LLMTimeout
    [] fetch.o = "error" -> LLMApiError
    [] fetch.o = "network" -> FetchFailed
    [] OTHER -> [k |-> "object", content |-> fetch.text]

EmptyResult(fileName) == Result(fileName, Arr(<< >>), Summary(Num(0), Arr(<< >>)))

\* CompanyLLMService.parseAnalysisResponse: every exception of the try block
\* (JSON.parse, a property of null, normalizeIssue) ends in the fallback.
parseAnalysisResponse(content, fileName) ==
  LET parsed == JSONparse(cleanedContent(content))
      summary == IF IsThrow(parsed) THEN Undef ELSE Prop(parsed, "summary")
      issues == IF IsThrow(parsed) \/ ~IsArray(Prop(parsed, "issues")) THEN Arr(<< >>)
                ELSE MapIssues(validTypes, parsed.issues.el)
  IN IF IsThrow(parsed) \/ Nullish(parsed) \/ IsThrow(issues) THEN EmptyResult(fileName)
     ELSE Result(IF Truthy(Prop(parsed, "fileName")) THEN parsed.fileName ELSE fileName,
                 issues,
                 Summary(IF Truthy(Prop(summary, "issueCount")) THEN summary.issueCount
                         ELSE Num(0),
                         IF IsArray(Prop(summary, "pagesAffected")) THEN summary.pagesAffected
                         ELSE Arr(<< >>)))

\* CompanyLLMService.analyzeDocument
analyzeDocument(fetch, fileName) ==
  LET response == callLLM(fetch)
  IN IF IsThrow(response)
     THEN Error(<<"Document analysis failed: ">> \o response.msg)
     ELSE parseAnalysisResponse(response.content, fileName)

\* analyzeDocumentWithCompanyLLM: getCompanyLLM throws without configuration.
analyzeDocumentWithCompanyLLM(fetch, fileName) ==
  IF fetch.o = "unconfigured" THEN LLMConfigMissing ELSE analyzeDocument(fetch, fileName)

(***************************************************************************)
(* LocalPatternProcessor (lib/local-patterns.ts).  A document is a         *)
(* sequence of characters; "\f" is the form feed.  A rule's expression is  *)
(* given by the stretches of text it matches, each written as one          *)
(* character of the document.                                              *)
(***************************************************************************)
avgCharsPerPage == 3000

\* content.split("\f")
RECURSIVE SplitFF(_)
SplitFF(content) ==
  LET at == {i \in 1..Len(content) : content[i] = "\f"}
  IN IF at = {} THEN <<content>>
     ELSE LET i == CHOOSE a \in at : \A b \in at : a <= b
          IN <<SubSeq(content, 1, i - 1)>> \o SplitFF(SubSeq(content, i + 1, Len(content)))

Min(a, b) == IF a <= b THEN a ELSE b
CeilDiv(a, b) == (a + b - 1) \div b

\* content.substring(start, end), offsets from 0
Substring(content, start, end) == SubSeq(content, start + 1, end)

\* splitIntoPages with every chunk after the first beginning one character
\* early
splitIntoPages_Overlap(content) ==
  LET pages == SplitFF(content)
  IN IF Len(pages) # 1 THEN pages
     ELSE [i \in 1..CeilDiv(Len(content), avgCharsPerPage) |->
             Substring(content, Max(0, (i - 1) * avgCharsPerPage - 1),
                       Min(i * avgCharsPerPage, Len(content)))]

\* LocalPatternProcessor.splitIntoPages
splitIntoPages(content) ==
  LET pages == SplitFF(content)
  IN IF Len(pages) # 1 THEN pages
     ELSE [i \in 1..CeilDiv(Len(content), avgCharsPerPage) |->
             Substring(content, (i - 1) * avgCharsPerPage,
                       Min(i * avgCharsPerPage, Len(content)))]


Rule(id, type, units) ==
  [id |-> id, type |-> type, units |-> units, global |-> TRUE, enabled |-> TRUE]

\* LocalPatternProcessor.rules as constructed: every rule enabled, every
\* expression global.
defaultRules ==
  <<Rule("common_typos", "typo", {"teh"}),
   Rule("duplicate_words", "typo", {"the the"}),
   Rule("missing_periods", "punctuation", {"e\nT"}),
   Rule("double_spaces", "spacing", {"  "}),
   Rule("space_before_punctuation", "spacing", {" ,"}),
   Rule("sentence_capitalization", "capitalization", {". a"}),
   Rule("currency_formatting", "formatting", {"$5.5"}),
   Rule("percentage_formatting", "formatting", {"5%"}),
   Rule("missing_sections", "cross_reference", {"see section 9"}),
   Rule("undefined_terms", "logic_point", {"Fund"}),
   Rule("date_formats", "formatting", {"1/2/2020"}),
   Rule("number_formatting", "formatting", {"10000"}),
   Rule("subscription_amounts", "logic_point", {"capital $5"}),
   Rule("signature_pages", "logic_point", {"signed below"}),
   Rule("closing_dates", "logic_point", {"closing date 1/2/2020"})>>

\* pages[0].length + ... + pages[i - 1].length
RECURSIVE LengthUpTo(_, _)
LengthUpTo(pages, i) == IF i = 0 THEN 0 ELSE LengthUpTo(pages, i - 1) + Len(pages[i])

\* LocalPatternProcessor.getPageNumber
getPageNumber(index, pages) ==
  LET hit == {i \in 1..Len(pages) : index <= LengthUpTo(pages, i)}
  IN IF hit = {} THEN Len(pages) ELSE CHOOSE i \in hit : \A j \in hit : i <= j

\* the characters of \s that the texts hold
WhiteSpace == {" ", "\t", "\n", "\f"}

\* the last position of the longest run of atoms of S that starts at
\* position i; i - 1 when there is none
RECURSIVE RunEnd(_, _, _)
RunEnd(text, i, S) ==
  IF i <= Len(text) /\ text[i] \in S THEN RunEnd(text, i + 1, S) ELSE i - 1

\* cs.trim()
RECURSIVE TrimEnd(_)
TrimEnd(cs) == IF cs # << >> /\ cs[Len(cs)] \in WhiteSpace
               THEN TrimEnd(SubSeq(cs, 1, Len(cs) - 1)) ELSE cs
trim(cs) == TrimEnd(SubSeq(cs, RunEnd(cs, 1, WhiteSpace) + 1, Len(cs)))

\* cs.replace(/\s+/g, " ")
RECURSIVE Squeeze(_, _)
Squeeze(cs, afterSpace) ==
  IF cs = << >> THEN << >>
  ELSE IF Head(cs) \in WhiteSpace
       THEN (IF afterSpace THEN << >> ELSE <<" ">>) \o Squeeze(Tail(cs), TRUE)
       ELSE <<Head(cs)>> \o Squeeze(Tail(cs), FALSE)

\* LocalPatternProcessor.getContext(content, index, 100)
getContext(content, index) ==
  trim(Squeeze(Substring(content, Max(0, index - 50), Min(Len(content), index + 50)), FALSE))

RECURSIVE Ascending(_)
Ascending(S) == IF S = {} THEN << >>
                ELSE LET i == CHOOSE a \in S : \A b \in S : a <= b
                     IN <<i>> \o Ascending(S \ {i})

\* LocalPatternProcessor.findPatternMatches: exec is repeated from lastIndex 0
\* until it finds nothing; a rule that is not global stops after one match.
findPatternMatches(rule, content, pages) ==
  LET all == Ascending({i \in 1..Len(content) : content[i] \in rule.units})
      found == IF rule.global \/ all = << >> THEN all ELSE <<all[1]>>
  IN [rule |-> rule,
      matches |-> [n \in 1..Len(found) |->
                     [text |-> content[found[n]], index |-> found[n] - 1,
                      page |-> getPageNumber(found[n] - 1, pages),
                      context |-> getContext(content, found[n] - 1)]]]

\* generateIssueMessage / generateSuggestion: fixed text around the match
generateIssueMessage(rule, text) == Str(<<rule.id, ": ", text>>)
generateSuggestion(rule, text) == Str(<<"suggestion of ", rule.id>>)

\* LocalPatternProcessor.convertMatchesToIssues
RECURSIVE convertMatchesToIssues(_)
convertMatchesToIssues(allMatches) ==
  IF allMatches = << >> THEN << >>
  ELSE LET match == Head(allMatches)
       IN [n \in 1..Len(match.matches) |->
             Issue(Num(match.matches[n].page), Word(match.rule.type),
                   generateIssueMessage(match.rule, match.matches[n].text),
                   Word(match.matches[n].text),
                   generateSuggestion(match.rule, match.matches[n].text),
                   Str(match.matches[n].context))]
          \o convertMatchesToIssues(Tail(allMatches))

\* the loop over all the rules, whatever their enabled flag
RECURSIVE allMatchesOf_AllRules(_, _, _)
allMatchesOf_AllRules(rules, content, pages) ==
  IF rules = << >> THEN << >>
  ELSE LET m == findPatternMatches(Head(rules), content, pages)
       IN (IF m.matches # << >> THEN <<m>> ELSE << >>)
          \o allMatchesOf_AllRules(Tail(rules), content, pages)

\* the loop of processDocument over the enabled rules
RECURSIVE allMatchesOf(_, _, _)
allMatchesOf(rules, content, pages) ==
  IF rules = << >> THEN << >>
  ELSE LET m == findPatternMatches(Head(rules), content, pages)
       IN (IF Head(rules).enabled /\ m.matches # << >> THEN <<m>> ELSE << >>)
          \o allMatchesOf(Tail(rules), content, pages)

\* LocalPatternProcessor.processDocument
processDocument(rules, content, fileName) ==
  LET issues == convertMatchesToIssues(allMatchesOf(rules, content, splitIntoPages(content)))
  IN Result(fileName, Arr(issues),
            Summary(Num(Len(issues)), Arr(Uniq(pagesOf(issues)))))

\* processDocumentWithPatterns: the process-wide processor and its rules
processDocumentWithPatterns(content, fileName) ==
  processDocument(defaultRules, content, fileName)


(***************************************************************************)
(* SecureReviewService (lib/secure-review.ts).  env holds the answers of   *)
(* the collaborators of one request: pdf-parse, the sanitizer, the model   *)
(* of the chosen method, the encryption service, the database and the      *)
(* screenshot manager.                                                     *)
(***************************************************************************)
\* DocumentSanitizer.sanitize: every stretch a rule matches is replaced.
sanitize(content) ==
  [i \in 1..Len(content) |->
     CASE content[i] \in {"123-45-6789", "987-65-4321"} -> "[SSN-REDACTED]"
       [] content[i] = "$500" -> "[AMOUNT-REDACTED]"
       [] OTHER -> content[i]]

SensitiveUnits == {"123-45-6789", "987-65-4321", "$500"}
HasSensitiveUnit(content) == \E i \in 1..Len(content) : content[i] \in SensitiveUnits

\* SecureReviewService.extractTextFromPdf: a failure of pdf-parse is logged
\* and the empty string returned.
extractTextFromPdf(pdf) == IF pdf.o = "ok" THEN pdf.text ELSE << >>

\* SecureReviewService.processManualOnly
processManualOnly(fileName) ==
  Result(fileName,
         Arr(<<Issue(Num(1), Word("other"), Word("Document uploaded for manual review only"),
                     EmptyStr, Word("Please review this document manually"),
                     Word("Manual review required"))>>),
         Summary(Num(1), Arr(<<Num(1)>>)))

\* SecureReviewService.processWithCompanyLLM: any failure of the company
\* model falls back to the local patterns.
processWithCompanyLLM(fetch, content, fileName) ==
  LET r == analyzeDocumentWithCompanyLLM(fetch, fileName)
  IN IF IsThrow(r) THEN processDocumentWithPatterns(content, fileName) ELSE r

UnknownMethod == Error(<<"Unknown processing method">>)
EncryptionKeyMissing == Error(<<"DOCUMENT_ENCRYPTION_KEY environment variable not set">>)

\* processDocumentSecurely, the switch on consent.processingMethod
analyzeByMethod(method, processedContent, fileName, env) ==
  CASE method = "company_llm" -> processWithCompanyLLM(env.model, processedContent, fileName)
    [] method = "external_ai" -> callGeminiSecure(env.apiKey, env.model)
    [] method = "local_patterns" -> processDocumentWithPatterns(processedContent, fileName)
    [] method = "manual_only" -> processManualOnly(fileName)
    [] OTHER -> UnknownMethod

\* processDocumentSecurely, the loop that sets issue.screenshotUrl
withScreenshots(issues, screenshot) ==
  [i \in 1..Len(issues) |->
     [g \in DOMAIN issues[i] \cup {"screenshotUrl"} |->
        IF g = "screenshotUrl" THEN screenshot ELSE issues[i][g]]]

\* processDocumentSecurely, from encryptDocument to the returned object
secureResult(analysisResult, issues, method, sanitized, env) ==
  IF IsThrow(analysisResult) THEN analysisResult
  ELSE IF ~env.encrypt THEN EncryptionKeyMissing
  ELSE IF Nullish(analysisResult) \/ ~IsArray(issues) THEN TypeError
  ELSE IF \E i \in 1..Len(issues.el) : ~IsObject(issues.el[i]) THEN TypeError
  ELSE [f \in DOMAIN analysisResult
                \cup {"documentId", "sanitization", "encryptionApplied", "processingMethod"} |->
          CASE f = "issues" -> Arr(withScreenshots(issues.el, env.screenshot))
            [] f = "documentId" -> env.store
            [] f = "sanitization" -> sanitized
            [] f = "encryptionApplied" -> TRUE
            [] f = "processingMethod" -> method
            [] OTHER -> analysisResult[f]]

\* processDocumentSecurely, the steps up to the analysis
analysisOf(consent, fileName, env, pdfText, sanitized) ==
  analyzeByMethod(consent.processingMethod,
                  IF sanitized THEN sanitize(pdfText) ELSE pdfText, fileName, env)

secureResultOf(analysisResult, consent, sanitized, env) ==
  secureResult(analysisResult, Prop(analysisResult, "issues"),
               consent.processingMethod, sanitized, env)

\* SecureReviewService.processDocumentSecurely
processDocumentSecurely(consent, fileName, env) ==
  secureResultOf(analysisOf(consent, fileName, env, extractTextFromPdf(env.pdf),
                            consent.sanitizationRequired /\ env.hasSensitiveContent),
                 consent, consent.sanitizationRequired /\ env.hasSensitiveContent, env)


(***************************************************************************)
(* SpecModel: one request on one of the model-calling paths.               *)
(***************************************************************************)
DocTwo ==
  Result(Word("model.pdf"),
         Arr(<<PlainIssue, [PlainIssue EXCEPT !.page = Num(2), !.type = Word("cross_reference")]>>),
         Summary(Num(2), Arr(<<Num(1), Num(2)>>)))
DocWrongSummary == Result(Word("model.pdf"), Arr(<<PlainIssue>>), Summary(Num(7), Arr(<<Num(9)>>)))
DocNoIssueFound == Result(Word("model.pdf"), Arr(<< >>), Summary(Num(0), Arr(<< >>)))
DocNoSummary == Result(Undef, Arr(<<[PlainIssue EXCEPT !.page = Str(<<"2">>)]>>), Undef)
DocNullIssue == Result(Undef, Arr(<<Null>>), Undef)

ModelDocs == {DocTwo, DocWrongSummary, DocNoIssueFound, DocNoSummary, DocNullIssue,
              [k |-> "object"], Null}

RawTexts ==
  UNION {{<<Json(v)>>,
          <<FenceJson, Nl, Json(v), Nl, Fence>>,
          <<Fence, Nl, Json(v), Nl, Fence>>,
          <<FenceJson, Nl, Json(v), Nl, Fence, Nl, Prose>>} : v \in ModelDocs}
    \cup {<< >>, <<Prose>>, <<FenceJson, Nl, Prose, Nl, Fence>>, <<Json(DocTwo), Prose>>,
          <<Json(DocTwo), Nl, Json(DocNoIssueFound)>>, <<FenceJson, Nl, Nl, Fence>>}

Responses == {[k |-> "outcome", o |-> "response", text |-> t] : t \in RawTexts}
GeminiOutcomes == Responses \cup {[k |-> "outcome", o |-> "timeout"], [k |-> "outcome", o |-> "error"]}
FetchOutcomes == Responses \cup {[k |-> "outcome", o |-> "timeout"], [k |-> "outcome", o |-> "error"], [k |-> "outcome", o |-> "network"]}

PdfTexts == {<<"ok">>, <<"teh", " ", "123-45-6789">>, <<"Fund", "\f", "$500", "  ">>}
PdfOutcomes == {[k |-> "outcome", o |-> "ok", text |-> t] : t \in PdfTexts} \cup {[k |-> "outcome", o |-> "fails"]}

Methods == {"company_llm", "external_ai", "local_patterns", "manual_only", "unknown"}

ModelOutcomesOf(method) ==
  CASE method = "company_llm" -> FetchOutcomes \cup {[k |-> "outcome", o |-> "unconfigured"]}
    [] method = "external_ai" -> GeminiOutcomes
    [] OTHER -> {[k |-> "outcome", o |-> "unused"]}

InitModel ==
  /\ pc = "request"
  /\ inp \in [fileName : FileNames]
  /\ out = << >>

\* lib/review.ts callGemini
CallGemini ==
  /\ pc = "request"
  /\ \E apiKey \in BOOLEAN, model \in GeminiOutcomes :
       /\ inp' = [fileName |-> inp.fileName, apiKey |-> apiKey, model |-> model]
       /\ out' = <<callGemini(apiKey, model)>>
  /\ pc' = "callGemini"

\* unnamed/part_009 callGemini
CallGeminiTry ==
  /\ pc = "request"
  /\ \E apiKey \in BOOLEAN, model \in GeminiOutcomes :
       /\ inp' = [fileName |-> inp.fileName, apiKey |-> apiKey, model |-> model]
       /\ out' = <<callGeminiTry(apiKey, model)>>
  /\ pc' = "callGeminiTry"

\* lib/n8n.ts callGemini
N8nCallGemini ==
  /\ pc = "request"
  /\ \E apiKey \in BOOLEAN, model \in GeminiOutcomes :
       /\ inp' = [fileName |-> inp.fileName, apiKey |-> apiKey, model |-> model]
       /\ out' = <<n8nCallGemini(apiKey, model)>>
  /\ pc' = "n8nCallGemini"

\* SecureReviewService.callGeminiSecure
CallGeminiSecure ==
  /\ pc = "request"
  /\ \E apiKey \in BOOLEAN, model \in GeminiOutcomes :
       /\ inp' = [fileName |-> inp.fileName, apiKey |-> apiKey, model |-> model]
       /\ out' = <<callGeminiSecure(apiKey, model)>>
  /\ pc' = "callGeminiSecure"

\* CompanyLLMService.callLLM
CallLLM ==
  /\ pc = "request"
  /\ \E model \in FetchOutcomes :
       /\ inp' = [fileName |-> inp.fileName, apiKey |-> TRUE, model |-> model]
       /\ out' = <<callLLM(model)>>
  /\ pc' = "callLLM"

\* CompanyLLMService.analyzeDocument
AnalyzeDocument ==
  /\ pc = "request"
  /\ \E model \in FetchOutcomes :
       /\ inp' = [fileName |-> inp.fileName, apiKey |-> TRUE, model |-> model]
       /\ out' = <<analyzeDocument(model, inp.fileName)>>
  /\ pc' = "analyzeDocument"

\* SecureReviewService.processDocumentSecurely
ProcessDocumentSecurely ==
  /\ pc = "request"
  /\ \E method \in Methods, sanitizationRequired \in BOOLEAN, pdf \in PdfOutcomes,
        detected \in BOOLEAN, encrypt \in BOOLEAN, store \in {Null, Word("doc-1")} :
       \E model \in ModelOutcomesOf(method) :
         LET consent == [processingMethod |-> method,
                         sanitizationRequired |-> sanitizationRequired]
             env == [pdf |-> pdf,
                     hasSensitiveContent |-> detected /\ HasSensitiveUnit(extractTextFromPdf(pdf)),
                     apiKey |-> TRUE, model |-> model, encrypt |-> encrypt, store |-> store,
                     screenshot |-> Undef]
         IN /\ inp' = [fileName |-> inp.fileName, apiKey |-> TRUE, model |-> model,
                       consent |-> consent, env |-> env]
            /\ out' = <<processDocumentSecurely(consent, inp.fileName, env)>>
  /\ pc' = "processDocumentSecurely"

NextModel ==
  \/ CallGemini \/ CallGeminiTry \/ N8nCallGemini \/ CallGeminiSecure
  \/ CallLLM \/ AnalyzeDocument \/ ProcessDocumentSecurely

SpecModel == InitModel /\ [][NextModel]_vars


(***************************************************************************)
(* The rule engines of lib/rules.ts.  A page text is a sequence of atoms:  *)
(* white space, punctuation, letters and digits are one character each,    *)
(* "Section" and the words of running text ("see", "Intro") are one atom   *)
(* each.  Two word atoms that are adjacent in a text form one longer word. *)
(***************************************************************************)
UpperCase == <<"A", "B", "C", "D", "E", "F", "G", "H", "I", "J", "K", "L", "M",
               "N", "O", "P", "Q", "R", "S", "T", "U", "V", "W", "X", "Y", "Z">>
LowerCase == <<"a", "b", "c", "d", "e", "f", "g", "h", "i", "j", "k", "l", "m",
               "n", "o", "p", "q", "r", "s", "t", "u", "v", "w", "x", "y", "z">>
IsUpper(a) == \E i \in DOMAIN UpperCase : UpperCase[i] = a
IsLower(a) == \E i \in DOMAIN LowerCase : LowerCase[i] = a
IsLetter(a) == IsUpper(a) \/ IsLower(a)
Punctuation == {".", ")", ":", "-", ",", "(", "{", "["}

\* \w, with the words of running text counted as runs of word characters
IsWordChar(a) == a \notin WhiteSpace \cup Punctuation
WordAt(text, i) == i \in 1..Len(text) /\ IsWordChar(text[i])

\* text.split(sep)
RECURSIVE SplitOn(_, _)
SplitOn(text, sep) ==
  IF \A i \in 1..Len(text) : text[i] # sep THEN <<text>>
  ELSE LET i == CHOOSE a \in 1..Len(text) :
                  text[a] = sep /\ \A b \in 1..(a - 1) : text[b] # sep
       IN <<SubSeq(text, 1, i - 1)>> \o SplitOn(SubSeq(text, i + 1, Len(text)), sep)

RomanDigits == {"I", "V", "X", "L", "C", "D", "M"}
DecimalDigits == {Digits[i] : i \in DOMAIN Digits}

\* (?:[IVXLCDM]+|\d+|[A-Z])\b tried at position j: the position of the last
\* atom of the label, 0 when the alternatives all fail.  A shorter run of
\* the same class never ends at a word boundary, so only the longest run of
\* each alternative can match.
labelEnd(text, j) ==
  IF RunEnd(text, j, RomanDigits) >= j /\ ~WordAt(text, RunEnd(text, j, RomanDigits) + 1)
  THEN RunEnd(text, j, RomanDigits)
  ELSE IF RunEnd(text, j, DecimalDigits) >= j
          /\ ~WordAt(text, RunEnd(text, j, DecimalDigits) + 1)
  THEN RunEnd(text, j, DecimalDigits)
  ELSE IF j <= Len(text) /\ IsUpper(text[j]) /\ ~WordAt(text, j + 1) THEN j
  ELSE 0

\* SECTION_DECL_RE tried at position i: the position of the last atom of the
\* match, 0 when there is no match at i.
sectionEnd(text, i) ==
  IF text[i] = "Section" /\ ~WordAt(text, i - 1) /\ RunEnd(text, i + 1, WhiteSpace) > i
  THEN labelEnd(text, RunEnd(text, i + 1, WhiteSpace) + 1)
  ELSE 0

\* text.matchAll(SECTION_DECL_RE): index and matched text of every match, in
\* order.  Matches begin with "Section" and so never overlap.
sectionMatches(text) ==
  LET at == Ascending({i \in 1..Len(text) : sectionEnd(text, i) > 0})
  IN [n \in 1..Len(at) |->
        [index |-> at[n] - 1, label |-> SubSeq(text, at[n], sectionEnd(text, at[n]))]]

\* line.match(SECTION_DECL_RE): the matched texts (empty for null)
lineHits(line) == [n \in 1..Len(sectionMatches(line)) |-> sectionMatches(line)[n].label]

\* rules.ts:18.  The character class of the header expression lists U+2013,
\* U+2014, "-" and ":" in that order, so it holds the range from U+2014 to
\* ":", whose bounds are out of order.  The literal is evaluated, and
\* throws, each time the callback reaches it; the startsWith operand of ||
\* is never evaluated.
InvalidRegExp ==
  Throw("SyntaxError", <<"Invalid regular expression: Range out of order in character class">>)
looksHeader(line, tok) == InvalidRegExp

\* Map<string, Set<number>>: keys in insertion order
EmptyMap == [k |-> "map", keys |-> << >>, sets |-> << >>]
MapHas(m, key) == \E i \in 1..Len(m.keys) : m.keys[i] = key
MapAdd(m, key, page) ==
  IF MapHas(m, key)
  THEN [m EXCEPT !.sets = [i \in 1..Len(m.keys) |->
                             IF m.keys[i] = key THEN m.sets[i] \cup {page} ELSE m.sets[i]]]
  ELSE [m EXCEPT !.keys = Append(m.keys, key), !.sets = Append(m.sets, {page})]

\* hits.forEach(tok => ...) on one line of page number page
RECURSIVE declareHits(_, _, _, _)
declareHits(m, line, hits, page) ==
  IF IsThrow(m) \/ hits = << >> THEN m
  ELSE IF IsThrow(looksHeader(line, Head(hits))) THEN looksHeader(line, Head(hits))
  ELSE declareHits(IF Truthy(looksHeader(line, Head(hits))) THEN MapAdd(m, Head(hits), page) ELSE m,
                   line, Tail(hits), page)

\* text.split("\n").forEach(line => ...)
RECURSIVE declareLines(_, _, _)
declareLines(m, lines, page) ==
  IF IsThrow(m) \/ lines = << >> THEN m
  ELSE declareLines(declareHits(m, Head(lines), lineHits(Head(lines)), page),
                    Tail(lines), page)

\* pages.forEach((text, i) => ...)
RECURSIVE declarePages(_, _, _)
declarePages(m, pages, i) ==
  IF IsThrow(m) \/ i > Len(pages) THEN m
  ELSE declarePages(declareLines(m, SplitOn(pages[i], "\n"), i), pages, i + 1)

\* collectDeclaredSections
collectDeclaredSections(pages) == declarePages(EmptyMap, pages, 1)

\* text.slice(start, end).replace(/\s+/g, " ").trim() around one match
referenceContext(text, m) ==
  trim(Squeeze(Substring(text, Max(0, m.index - 40),
                         Min(Len(text), m.index + Len(m.label) + 40)), FALSE))

pageReferences(text, page) ==
  [n \in 1..Len(sectionMatches(text)) |->
     [label |-> sectionMatches(text)[n].label, page |-> page,
      context |-> referenceContext(text, sectionMatches(text)[n])]]

\* collectReferencedSections
RECURSIVE referencesFrom(_, _)
referencesFrom(pages, i) ==
  IF i > Len(pages) THEN << >>
  ELSE pageReferences(pages[i], i) \o referencesFrom(pages, i + 1)

collectReferencedSections(pages) == referencesFrom(pages, 1)

\* [...declared.keys()].join(", ") || "none"
RECURSIVE JoinKeys(_)
JoinKeys(keys) ==
  IF keys = << >> THEN << >>
  ELSE IF Len(keys) = 1 THEN keys[1]
  ELSE keys[1] \o <<",", " ">> \o JoinKeys(Tail(keys))

declaredList(declared) ==
  IF JoinKeys(declared.keys) = << >> THEN <<"none">> ELSE JoinKeys(declared.keys)

\* diffMissingReferences
RECURSIVE diffMissingReferences(_, _)
diffMissingReferences(declared, referenced) ==
  IF referenced = << >> THEN << >>
  ELSE (IF MapHas(declared, Head(referenced).label) THEN << >>
        ELSE <<Issue(Num(Head(referenced).page), Word("reference"),
                     Str(<<"Reference to missing section: ">> \o Head(referenced).label),
                     Str(Head(referenced).context),
                     Str(<<"Remove/update the reference; declared sections: ">>
                         \o declaredList(declared) \o <<".">>),
                     Str(Head(referenced).context))>>)
       \o diffMissingReferences(declared, Tail(referenced))

\* The cross-reference detector: the index is built, the occurrences are
\* collected, and the two are compared.
diffAgainst(declared, pages) ==
  IF IsThrow(declared) THEN declared
  ELSE Arr(diffMissingReferences(declared, collectReferencedSections(pages)))

missingReferences(pages) == diffAgainst(collectDeclaredSections(pages), pages)

\* LIST_RE = /^\s*([a-zA-Z]|\d+)[\.\)]\s+/ on one line: the position of the
\* last atom of the marker, 0 when the line does not match.
markerEnd(line) ==
  LET j == RunEnd(line, 1, WhiteSpace) + 1
      e == IF j <= Len(line) /\ IsLetter(line[j]) THEN j ELSE RunEnd(line, j, DecimalDigits)
  IN IF e >= j /\ e + 2 <= Len(line) /\ line[e + 1] \in {".", ")"} /\ line[e + 2] \in WhiteSpace
     THEN e ELSE 0

\* m[1] of line.match(LIST_RE)
markerOf(line) == SubSeq(line, RunEnd(line, 1, WhiteSpace) + 1, markerEnd(line))

\* lab.toLowerCase()
toLowerCase(cs) ==
  [i \in 1..Len(cs) |->
     IF IsUpper(cs[i]) THEN LowerCase[CHOOSE n \in DOMAIN UpperCase : UpperCase[n] = cs[i]]
     ELSE cs[i]]

\* cs.charCodeAt(0) for a marker, which begins with a letter or a digit
charCodeAt0(cs) ==
  CASE IsDigit(cs[1]) -> 48 + DigitVal(cs[1])
    [] IsUpper(cs[1]) -> 64 + (CHOOSE n \in DOMAIN UpperCase : UpperCase[n] = cs[1])
    [] IsLower(cs[1]) -> 96 + (CHOOSE n \in DOMAIN LowerCase : LowerCase[n] = cs[1])

\* String.fromCharCode(n) for the code after that of a lower-case letter or
\* of a digit
fromCharCode(n) ==
  CASE n \in 48..57 -> Digits[n - 47]
    [] n = 58 -> ":"
    [] n \in 97..122 -> LowerCase[n - 96]
    [] n = 123 -> "{"

\* Number(lab) for a marker: NaN for a letter
Number(lab) == IF IsLetter(lab[1]) THEN NaN ELSE digitsToNumber(FALSE, lab)
isFinite(v) == v.k = "number"

\* the issue pushed for the letters prev -> curr of an alphabetic run
alphaIssue(page, prev, curr) ==
  Issue(Num(page), Word("numbering"),
        Str(<<"List jumps from ", "\"">> \o prev.lab \o <<"\"", " to ", "\"">>
            \o curr.lab \o <<"\"">>),
        Str(curr.line),
        Str(<<"Insert ", "\"", fromCharCode(charCodeAt0(toLowerCase(prev.lab)) + 1), ".",
              "\"", " or renumber.">>),
        Str(trim(curr.line)))

\* the issue pushed for the numbers p -> c of a numeric run
numericIssue(page, p, c, curr) ==
  Issue(Num(page), Word("numbering"),
        Str(<<"List jumps from ", "\"">> \o ToStringChars(p) \o <<"\"", " to ", "\"">>
            \o ToStringChars(c) \o <<"\"">>),
        Str(curr.line),
        Str(<<"Insert ", "\"">> \o NatChars(p.n + 1) \o <<".", "\"", " or renumber.">>),
        Str(trim(curr.line)))

\* what the loop body of flush pushes for seq[i - 1], seq[i]
pairIssues(page, alpha, prev, curr) ==
  IF alpha
  THEN IF charCodeAt0(toLowerCase(curr.lab)) # charCodeAt0(toLowerCase(prev.lab)) + 1
       THEN <<alphaIssue(page, prev, curr)>> ELSE << >>
  ELSE IF isFinite(Number(prev.lab)) /\ isFinite(Number(curr.lab))
          /\ Number(curr.lab).n # Number(prev.lab).n + 1
       THEN <<numericIssue(page, Number(prev.lab), Number(curr.lab), curr)>> ELSE << >>

RECURSIVE runIssues(_, _, _, _)
runIssues(page, alpha, seq, i) ==
  IF i > Len(seq) THEN << >>
  ELSE pairIssues(page, alpha, seq[i - 1], seq[i]) \o runIssues(page, alpha, seq, i + 1)

\* flush: a run of fewer than two markers is dropped; the first marker
\* decides whether the run is alphabetic.
flush(page, seq) ==
  IF Len(seq) < 2 THEN << >>
  ELSE runIssues(page, Len(seq[1].lab) = 1 /\ IsLetter(seq[1].lab[1]), seq, 2)

\* the loop with a run that a line without marker does not close
RECURSIVE scanLines_NoReset(_, _, _)
scanLines_NoReset(page, lines, seq) ==
  IF lines = << >> THEN flush(page, seq)
  ELSE IF markerEnd(Head(lines)) > 0
  THEN scanLines_NoReset(page, Tail(lines),
                         Append(seq, [lab |-> markerOf(Head(lines)), line |-> Head(lines)]))
  ELSE scanLines_NoReset(page, Tail(lines), seq)

\* for (const line of lines) { ... } flush()
RECURSIVE scanLines(_, _, _)
scanLines(page, lines, seq) ==
  IF lines = << >> THEN flush(page, seq)
  ELSE IF markerEnd(Head(lines)) > 0
  THEN scanLines(page, Tail(lines),
                 Append(seq, [lab |-> markerOf(Head(lines)), line |-> Head(lines)]))
  ELSE flush(page, seq) \o scanLines(page, Tail(lines), << >>)

RECURSIVE gapsFrom(_, _)
gapsFrom(pages, i) ==
  IF i > Len(pages) THEN << >>
  ELSE scanLines(i, SplitOn(pages[i], "\n"), << >>) \o gapsFrom(pages, i + 1)

\* findNumberingGaps
findNumberingGaps(pages) == Arr(gapsFrom(pages, 1))


(***************************************************************************)
(* SpecRules: one rule engine of lib/rules.ts is run on a page-text        *)
(* sequence.                                                               *)
(***************************************************************************)
MaxLines == 3

MarkerLabels == {<<"a">>, <<"b">>, <<"d">>, <<"B">>, <<"1">>, <<"2">>, <<"4">>, <<"1", "0">>}
ListLine(lab) == lab \o <<".", " ", "item">>

\* list items, a paragraph, an indented item closed by a parenthesis, and a
\* number that no white space follows
ListLines ==
  {ListLine(lab) : lab \in MarkerLabels}
    \cup {<<"text">>, <<" ", "c", ")", " ", "item">>, <<"3", ".">>}

RECURSIVE JoinLines(_)
JoinLines(lines) ==
  IF lines = << >> THEN << >>
  ELSE IF Len(lines) = 1 THEN lines[1]
  ELSE lines[1] \o <<"\n">> \o JoinLines(Tail(lines))

ListPages == {JoinLines(ls) : ls \in SeqsUpTo(ListLines, MaxLines)}

Header1 == <<"Section", " ", "1", ":", " ", "Intro">>
SectionTexts ==
  {Header1,
   <<"see", " ", "Section", " ", "2">>,
   <<"As stated in", " ", "Section", " ", "5", ",", " ", "text">>,
   <<"see", " ", "Section", "\n", "I", "V">>,
   <<"see", " ", "Section", "\n", "2", " ", "and", " ", "Section", "  ", "2">>,
   <<"Section", " ", "1", "\n", "see", " ", "Section", " ", "1">>,
   <<"Section", " ", "A", "b">>,
   <<"text">>}

RulePages ==
  {<<p>> : p \in ListPages \cup SectionTexts}
    \cup {<<p, q>> : p, q \in SectionTexts}
    \cup {<<Header1, <<"text">>, <<"see", " ", "Section", " ", "2">> >>,
          <<JoinLines(<<ListLine(<<"a">>), ListLine(<<"b">>)>>),
            JoinLines(<<ListLine(<<"d">>), ListLine(<<"2">>)>>)>>}

InitRules ==
  /\ pc = "pages"
  /\ inp \in [pages : RulePages]
  /\ out = << >>

\* collectDeclaredSections
CollectDeclaredSections ==
  /\ pc = "pages"
  /\ out' = <<collectDeclaredSections(inp.pages)>>
  /\ pc' = "collectDeclaredSections"
  /\ UNCHANGED inp

\* collectReferencedSections
CollectReferencedSections ==
  /\ pc = "pages"
  /\ out' = <<Arr(collectReferencedSections(inp.pages))>>
  /\ pc' = "collectReferencedSections"
  /\ UNCHANGED inp

\* collectDeclaredSections, collectReferencedSections, diffMissingReferences
MissingReferences ==
  /\ pc = "pages"
  /\ out' = <<missingReferences(inp.pages)>>
  /\ pc' = "missingReferences"
  /\ UNCHANGED inp

\* findNumberingGaps
FindNumberingGaps ==
  /\ pc = "pages"
  /\ out' = <<findNumberingGaps(inp.pages)>>
  /\ pc' = "findNumberingGaps"
  /\ UNCHANGED inp

NextRules ==
  \/ CollectDeclaredSections \/ CollectReferencedSections
  \/ MissingReferences \/ FindNumberingGaps

SpecRules == InitRules /\ [][NextRules]_vars


(***************************************************************************)
(* SpecPages: LocalPatternProcessor.splitIntoPages on contents whose       *)
(* lengths lie around the multiples of the page length.  The characters    *)
(* of a content are pairwise different, or all the same.                   *)
(***************************************************************************)
MaxChunks == 2
Slack == 8

PageLengths ==
  {n * avgCharsPerPage + d : n \in 0..MaxChunks, d \in (-Slack)..Slack} \cap Nat

Contents ==
  {[i \in 1..len |-> ToString(i)] : len \in PageLengths}
    \cup {[i \in 1..len |-> "x"] : len \in PageLengths}
    \cup {<<"a", "\f", "b">>, <<"\f">>, <<"a", "b", "\f">>}

InitPages ==
  /\ pc = "content"
  /\ inp \in [content : Contents]
  /\ out = << >>

\* LocalPatternProcessor.splitIntoPages
SplitIntoPages ==
  /\ pc = "content"
  /\ out' = <<splitIntoPages(inp.content)>>
  /\ pc' = "splitIntoPages"
  /\ UNCHANGED inp

NextPages == SplitIntoPages

SpecPages == InitPages /\ [][NextPages]_vars


(***************************************************************************)
(* Properties.                                                             *)
(***************************************************************************)
\* A returned value that is an analysis result: an object with an issues list.
IsAnalysisResult(v) == IsObject(v) /\ IsArray(Prop(v, "issues"))

\* summary.issueCount is the length of issues and summary.pagesAffected holds
\* exactly the page values of the issues.
SummaryDerived(v) ==
  /\ Prop(Prop(v, "summary"), "issueCount") = Num(Len(v.issues.el))
  /\ IsArray(Prop(Prop(v, "summary"), "pagesAffected"))
  /\ {v.summary.pagesAffected.el[i] : i \in 1..Len(v.summary.pagesAffected.el)}
       = {Prop(v.issues.el[i], "page") : i \in 1..Len(v.issues.el)}

\* C1: every analysis result an analysis path returns (parseAnalysisResponse
\* through analyzeDocument, callGeminiSecure, and processManualOnly,
\* processDocument and both of the former through processDocumentSecurely)
\* has summary.issueCount equal to the length of its issues list and
\* summary.pagesAffected equal to the set of the pages of its issues,
\* whatever summary the model response carried.
C1_SummaryDerivation ==
  (pc \in {"analyzeDocument", "callGeminiSecure", "processDocumentSecurely"}
     /\ IsAnalysisResult(out[1]))
    => SummaryDerived(out[1])

\* The response text is not JSON once its code fences are stripped.
Unparseable(text) == IsThrow(JSONparse(stripFences(text)))

ParsingPaths ==
  {"callGemini", "callGeminiTry", "n8nCallGemini", "callGeminiSecure", "analyzeDocument"}

\* C2: when the text the model answered is not parseable JSON after its code
\* fences are stripped, the analysis ends in an error that carries the raw
\* text; in particular it does not return a successful result.
C2_MalformedOutputIsAnError ==
  (pc \in ParsingPaths /\ inp.apiKey /\ inp.model.o = "response"
     /\ Unparseable(inp.model.text))
    => (IsThrow(out[1]) /\ "text" \in DOMAIN out[1] /\ out[1].text = inp.model.text)

InVocabulary(type) == type.k = "string" /\ Len(type.cs) = 1 /\ type.cs[1] \in Vocabulary

\* the type a normalizer must give a raw issue
ExpectedType(issue) ==
  IF InVocabulary(Prop(issue, "type")) THEN issue.type ELSE Word("other")

\* C3: for every raw issue the normalizer outputs the input type unchanged
\* when it is one of the twelve values of the vocabulary, and "other" exactly
\* when it is not.
C3_TypeVocabulary ==
  /\ (pc \in {"normalizeData", "n8nNormalizeData"} /\ ~IsThrow(out[1]))
       => \A i \in 1..Len(out[1].issues.el) :
            out[1].issues.el[i].type = ExpectedType(inp.data.issues.el[i])
  /\ (pc = "normalizeIssue" /\ ~IsThrow(out[1]))
       => out[1].type = ExpectedType(inp.data)

\* C4: normalizeData is idempotent: applied to its own result, with the same
\* file name, it returns that result again, equal in fileName, in every
\* field of every issue, in the order of the issues and in summary.
C4_Idempotent ==
  (pc \in {"normalizeData", "n8nNormalizeData"} /\ Len(out) = 2) => out[2] = out[1]

\* The separator characters of a header line (the texts hold the two of
\* them that are ASCII).
Separators == {":", "-"}

\* The occurrence m of a label on a line is a declaration: the line, trimmed,
\* starts with the label, or a separator follows the label immediately.
IsDeclaration(line, m) ==
  \/ m.index = RunEnd(line, 1, WhiteSpace)
  \/ /\ m.index + Len(m.label) + 1 <= Len(line)
     /\ line[m.index + Len(m.label) + 1] \in Separators

\* some line of the page text declares the label
DeclaredOn(text, label) ==
  \E l \in 1..Len(SplitOn(text, "\n")) :
    \E n \in 1..Len(sectionMatches(SplitOn(text, "\n")[l])) :
      /\ sectionMatches(SplitOn(text, "\n")[l])[n].label = label
      /\ IsDeclaration(SplitOn(text, "\n")[l], sectionMatches(SplitOn(text, "\n")[l])[n])

Declared(pages, label) == \E p \in 1..Len(pages) : DeclaredOn(pages[p], label)

\* the occurrences of labels that no page declares, in scan order
UndeclaredOccurrences(pages) ==
  SelectSeq(collectReferencedSections(pages), LAMBDA r : ~Declared(pages, r.label))

\* C5: the cross-reference detector emits exactly one issue for each
\* occurrence of a section label that has no declaration, on the page of the
\* occurrence and naming the label, and none for an occurrence of a declared
\* label; every occurrence of the same missing label has its own issue.
C5_CrossReferenceSoundness ==
  pc = "missingReferences" =>
    /\ IsArray(out[1])
    /\ Len(out[1].el) = Len(UndeclaredOccurrences(inp.pages))
    /\ \A n \in 1..Len(out[1].el) :
         /\ out[1].el[n].page = Num(UndeclaredOccurrences(inp.pages)[n].page)
         /\ out[1].el[n].message =
              Str(<<"Reference to missing section: ">>
                  \o UndeclaredOccurrences(inp.pages)[n].label)

LetterIndex(a) ==
  IF IsUpper(a) THEN CHOOSE n \in DOMAIN UpperCase : UpperCase[n] = a
  ELSE CHOOSE n \in DOMAIN LowerCase : LowerCase[n] = a

\* curr is the immediate successor of prev in a run whose first marker is
\* first: the next letter, whatever the case, in a run that a letter opens;
\* the previous integer plus one in a run that a number opens.
InSequence(first, prev, curr) ==
  IF IsLetter(first[1])
  THEN IsLetter(prev[1]) /\ IsLetter(curr[1]) /\ LetterIndex(curr[1]) = LetterIndex(prev[1]) + 1
  ELSE ~IsLetter(prev[1]) /\ ~IsLetter(curr[1]) /\ DigitsVal(curr, 0) = DigitsVal(prev, 0) + 1

\* The adjacent pairs of markers that are out of sequence, each as the page
\* and the line of its second marker, in scan order.  start is the line that
\* opened the run lines[i] continues, 0 when lines[i - 1] is no marker line.
RECURSIVE OutOfSequence(_, _, _, _)
OutOfSequence(page, lines, i, start) ==
  IF i > Len(lines) THEN << >>
  ELSE IF markerEnd(lines[i]) = 0 THEN OutOfSequence(page, lines, i + 1, 0)
  ELSE IF start = 0 THEN OutOfSequence(page, lines, i + 1, i)
  ELSE (IF InSequence(markerOf(lines[start]), markerOf(lines[i - 1]), markerOf(lines[i]))
        THEN << >> ELSE <<[page |-> page, line |-> lines[i]]>>)
       \o OutOfSequence(page, lines, i + 1, start)

RECURSIVE ExpectedGaps(_, _)
ExpectedGaps(pages, p) ==
  IF p > Len(pages) THEN << >>
  ELSE OutOfSequence(p, SplitOn(pages[p], "\n"), 1, 0) \o ExpectedGaps(pages, p + 1)

\* C7: within every run of two or more consecutive list-marker lines of a
\* page, findNumberingGaps emits exactly one issue of type numbering for each
\* adjacent pair of markers whose second is not the immediate successor of
\* the first, on the line of the second marker, and no issue for a pair that
\* is in sequence.
C7_OneIssuePerGap ==
  pc = "findNumberingGaps" =>
    /\ IsArray(out[1])
    /\ \A n \in 1..Len(out[1].el) : out[1].el[n].type = Word("numbering")
    /\ [n \in 1..Len(out[1].el) |->
          [page |-> out[1].el[n].page.n, line |-> out[1].el[n].original.cs]]
         = ExpectedGaps(inp.pages, 1)

\* what a model-calling path returns or throws when the model call ends in
\* the given way
PathResult(path, model) ==
  CASE path = "callGemini" -> callGemini(TRUE, model)
    [] path = "callGeminiTry" -> callGeminiTry(TRUE, model)
    [] path = "n8nCallGemini" -> n8nCallGemini(TRUE, model)
    [] path = "callGeminiSecure" -> callGeminiSecure(TRUE, model)
    [] path = "callLLM" -> callLLM(model)

OutcomesOf(path) == IF path = "callLLM" THEN FetchOutcomes ELSE GeminiOutcomes

\* C8: when the deadline of the model call elapses first, the path fails
\* with an error that differs from the one it gives for a malformed response
\* and from the one it gives for any other failure of the model.
C8_TimeoutDistinct ==
  (pc \in {"callGemini", "callGeminiTry", "n8nCallGemini", "callGeminiSecure", "callLLM"}
     /\ inp.apiKey /\ inp.model.o = "timeout")
    => /\ IsThrow(out[1])
       /\ \A m \in OutcomesOf(pc) : m.o # "timeout" => PathResult(pc, m) # out[1]

\* the extraction failed, or the model of the chosen method timed out or failed
PipelineFailure ==
  \/ inp.env.pdf.o = "fails"
  \/ /\ inp.consent.processingMethod \in {"company_llm", "external_ai"}
     /\ inp.model.o \in {"timeout", "error", "network"}

\* C9: whenever the extraction of the PDF text fails, or the call of the
\* selected model times out or fails, processDocumentSecurely rejects.
C9_PipelineFailureRejects ==
  (pc = "processDocumentSecurely" /\ PipelineFailure) => IsThrow(out[1])

RECURSIVE Concat(_)
Concat(chunks) == IF chunks = << >> THEN << >> ELSE Head(chunks) \o Concat(Tail(chunks))

NoFormFeed(content) == \A i \in 1..Len(content) : content[i] # "\f"

\* C10: for a content without form feeds, the chunks of splitIntoPages
\* concatenated in order are the content, every chunk but the last has
\* exactly avgCharsPerPage characters, and the number n of chunks is the
\* ceiling of length / avgCharsPerPage, that is (n - 1) * avgCharsPerPage <
\* length <= n * avgCharsPerPage; the empty content has no chunk.
C10_ChunksPartition ==
  (pc = "splitIntoPages" /\ NoFormFeed(inp.content)) =>
    /\ Concat(out[1]) = inp.content
    /\ \A i \in 1..(Len(out[1]) - 1) : Len(out[1][i]) = avgCharsPerPage
    /\ (Len(out[1]) - 1) * avgCharsPerPage < Len(inp.content)
    /\ Len(inp.content) <= Len(out[1]) * avgCharsPerPage

\* a content of pairwise different characters was split into three chunks,
\* the last of them short
C10_ShortLastChunk ==
  /\ pc = "splitIntoPages"
  /\ NoFormFeed(inp.content)
  /\ Len(out[1]) = 3
  /\ Len(out[1][3]) < avgCharsPerPage
  /\ inp.content[1] # inp.content[2]
(***************************************************************************)
(* lib/email.ts: the post-processing checks of a drafted email.            *)
(*                                                                         *)
(* The texts of a draft are sequences of characters. A constant piece of a *)
(* template that holds none of the words the checks look for is one        *)
(* element (a tag, a label); the typographic quotes and the bullet are the *)
(* elements "ldquo", "rdquo" and "bullet".                                 *)
(***************************************************************************)
Bool(b) == [k |-> "boolean", b |-> b]

\* text.includes(term)
includes(text, term) ==
  \E i \in 0..(Len(text) - Len(term)) : SubSeq(text, i + 1, i + Len(term)) = term

\* /p\. \d+/.test(text): the expression is not anchored
pageRefTest(text) ==
  \E i \in 1..(Len(text) - 3) :
    /\ text[i] = "p" /\ text[i + 1] = "." /\ text[i + 2] = " "
    /\ IsDigit(text[i + 3])

\* terms.filter(term => text.includes(term))
RECURSIVE filterIncluded(_, _)
filterIncluded(terms, text) ==
  IF terms = << >> THEN << >>
  ELSE (IF includes(text, Head(terms)) THEN <<Head(terms)>> ELSE << >>)
         \o filterIncluded(Tail(terms), text)

\* found.join(', ')
RECURSIVE joinTerms(_)
joinTerms(found) ==
  IF found = << >> THEN << >>
  ELSE IF Len(found) = 1 THEN found[1]
  ELSE found[1] \o <<",", " ">> \o joinTerms(Tail(found))

Flag(type, message) == [k |-> "object", type |-> type, message |-> message]

investorTerms == <<<<"I", "n", "v", "e", "s", "t", "o", "r">>, <<"S", "u", "b", "s", "c", "r", "i", "b", "e", "r">>, <<"A", "p", "p", "l", "i", "c", "a", "n", "t">>>>
fundTerms == <<<<"F", "u", "n", "d">>, <<"P", "a", "r", "t", "n", "e", "r", "s", "h", "i", "p">>>>

InvestorLabel == <<"Inconsistent terminology for ">> \o <<"i", "n", "v", "e", "s", "t", "o", "r">> \o <<": ">>
FundLabel == <<"Inconsistent terminology for ">> \o <<"f", "u", "n", "d">> \o <<": ">>

terminologyFlag(label, found) ==
  IF Len(found) > 1 THEN <<Flag("warning", label \o joinTerms(found))>> ELSE << >>

checkTerminology(text) ==
  terminologyFlag(InvestorLabel, filterIncluded(investorTerms, text))
    \o terminologyFlag(FundLabel, filterIncluded(fundTerms, text))

\* generatedJson.questions after runPostProcessorChecks replaced a value
\* that is not an array by the empty array
questionsOf(generatedJson) ==
  IF IsArray(Prop(generatedJson, "questions")) THEN generatedJson.questions.el ELSE << >>

MissingType == Error(<<"Question is missing a type">>)

lacksType_Never(question) == FALSE

\* !question.type
lacksType(question) == ~Truthy(Prop(question, "type"))

\* The first loop: the first question without a type stops the checks.
RECURSIVE completenessCheck(_)
completenessCheck(questions) ==
  IF questions = << >> THEN Undef
  ELSE IF Nullish(Head(questions)) THEN TypeError
  ELSE IF lacksType(Head(questions)) THEN MissingType
  ELSE completenessCheck(Tail(questions))

MissingReferenceMessage(title) ==
  <<"Missing ">> \o <<"s", "e", "c", "t", "i", "o", "n", "T", "i", "t", "l", "e">> \o <<" or ">> \o <<"p", "a", "g", "e", "R", "e", "f">> \o <<" for question: ">>
    \o ToStringChars(title)

IncorrectPageRefMessage(title) ==
  <<"Incorrect ">> \o <<"p", "a", "g", "e", "R", "e", "f">> \o <<" format for question: ">> \o ToStringChars(title)

UpdatedPdfMessage(title) ==
  <<"Question ", "ldquo">> \o ToStringChars(title)
    \o <<"rdquo", " may need to explicitly ask for an ">> \o <<"u", "p", "d", "a", "t", "e", "d">> \o <<" PDF.">>

\* The flags of the reference check for one question whose evidence can be read.
referenceFlagsOf(q) ==
  LET sectionTitle == Prop(Prop(q, "evidence"), "sectionTitle")
      pageRef == Prop(Prop(q, "evidence"), "pageRef")
  IN (IF ~Truthy(sectionTitle) \/ ~Truthy(pageRef)
      THEN <<Flag("error", MissingReferenceMessage(Prop(q, "title")))>> ELSE << >>)
       \o (IF Truthy(pageRef) /\ ~pageRefTest(ToStringChars(pageRef))
           THEN <<Flag("warning", IncorrectPageRefMessage(Prop(q, "title")))>> ELSE << >>)

\* flags followed by the result of the rest of a loop, which may have thrown
Followed(flags, rest) == IF IsThrow(rest) THEN rest ELSE Arr(flags \o rest.el)

\* 1. Reference Check
RECURSIVE referenceCheck(_)
referenceCheck(questions) ==
  IF questions = << >> THEN Arr(<< >>)
  ELSE IF Nullish(Prop(Head(questions), "evidence")) THEN TypeError
  ELSE Followed(referenceFlagsOf(Head(questions)), referenceCheck(Tail(questions)))

\* q.proposedSolution.toLowerCase() can be called
hasToLowerCase(v) == v.k = "string"

updatedPdfFlagsOf_CaseSensitive(q) ==
  IF /\ ~includes(q.proposedSolution.cs, <<"u", "p", "d", "a", "t", "e", "d">>)
     /\ ~includes(q.proposedSolution.cs, <<"r", "e", "v", "i", "s", "e", "d">>)
  THEN <<Flag("warning", UpdatedPdfMessage(Prop(q, "title")))>> ELSE << >>

\* 3. Updated PDF Rule, for one question whose proposedSolution is a string
updatedPdfFlagsOf(q) ==
  IF /\ ~includes(toLowerCase(q.proposedSolution.cs), <<"u", "p", "d", "a", "t", "e", "d">>)
     /\ ~includes(toLowerCase(q.proposedSolution.cs), <<"r", "e", "v", "i", "s", "e", "d">>)
  THEN <<Flag("warning", UpdatedPdfMessage(Prop(q, "title")))>> ELSE << >>

RECURSIVE updatedPdfCheck(_)
updatedPdfCheck(questions) ==
  IF questions = << >> THEN Arr(<< >>)
  ELSE IF ~Truthy(Prop(Head(questions), "requestUpdatedPDF"))
       THEN updatedPdfCheck(Tail(questions))
  ELSE IF ~hasToLowerCase(Prop(Head(questions), "proposedSolution")) THEN TypeError
  ELSE Followed(updatedPdfFlagsOf(Head(questions)), updatedPdfCheck(Tail(questions)))

\* questions.map(q => q.issue + ' ' + q.proposedSolution).join(' ')
RECURSIVE questionTexts(_)
questionTexts(questions) ==
  IF questions = << >> THEN << >>
  ELSE ToStringChars(Prop(Head(questions), "issue")) \o <<" ">>
         \o ToStringChars(Prop(Head(questions), "proposedSolution"))
         \o (IF Len(questions) > 1 THEN <<" ">> ELSE << >>)
         \o questionTexts(Tail(questions))

\* 4. Terminology Consistency: the text the check reads
emailText(generatedJson) ==
  ToStringChars(Prop(generatedJson, "opening")) \o <<" ">>
    \o questionTexts(questionsOf(generatedJson)) \o <<" ">>
    \o ToStringChars(Prop(generatedJson, "closing"))

checksAfterCompleteness(generatedJson) ==
  LET reference == referenceCheck(questionsOf(generatedJson))
      updatedPdf == updatedPdfCheck(questionsOf(generatedJson))
  IN IF IsThrow(reference) THEN reference
     ELSE IF IsThrow(updatedPdf) THEN updatedPdf
     ELSE Arr(reference.el \o updatedPdf.el \o checkTerminology(emailText(generatedJson)))

\* for null, a primitive or an object that is not an array
runPostProcessorChecks(generatedJson) ==
  IF ~IsObject(generatedJson) THEN TypeError
  ELSE IF IsThrow(completenessCheck(questionsOf(generatedJson)))
       THEN completenessCheck(questionsOf(generatedJson))
  ELSE checksAfterCompleteness(generatedJson)

\* json with the questions runPostProcessorChecks left in it
withQuestions(json) ==
  [f \in (DOMAIN json) \cup {"questions"} |->
     IF f = "questions" THEN Arr(questionsOf(json)) ELSE json[f]]

\* The item of one question in bodyHtml and in bodyText.
questionHtml(q) ==
  <<"<li><strong>">> \o ToStringChars(Prop(q, "title")) \o <<":</strong> ">>
    \o ToStringChars(Prop(q, "issue")) \o <<" (<em>">>
    \o ToStringChars(Prop(Prop(q, "evidence"), "sectionTitle")) \o <<",", " ">>
    \o ToStringChars(Prop(Prop(q, "evidence"), "pageRef")) \o <<"</em>).<br/>">>
    \o ToStringChars(Prop(q, "proposedSolution")) \o <<"</li>">>

questionText(q) ==
  <<"bullet", " ">> \o ToStringChars(Prop(q, "title")) \o <<":", " ">>
    \o ToStringChars(Prop(q, "issue")) \o <<" ", "(">>
    \o ToStringChars(Prop(Prop(q, "evidence"), "sectionTitle")) \o <<",", " ">>
    \o ToStringChars(Prop(Prop(q, "evidence"), "pageRef")) \o <<")", ".", "\n">>
    \o ToStringChars(Prop(q, "proposedSolution")) \o <<"\n">>

typoItem(t) ==
  <<"On ">> \o ToStringChars(Prop(t, "pageRef")) \o <<", we found ", "ldquo">>
    \o ToStringChars(Prop(t, "excerpt")) \o <<"rdquo", " which we believe should be ", "ldquo">>
    \o ToStringChars(Prop(t, "suggestedFix")) \o <<"rdquo", ".">>

\* q.evidence.sectionTitle can be read
readable(q) == ~Nullish(q) /\ ~Nullish(Prop(q, "evidence"))

RECURSIVE questionsHtml(_)
questionsHtml(questions) ==
  IF questions = << >> THEN << >>
  ELSE questionHtml(Head(questions)) \o questionsHtml(Tail(questions))

RECURSIVE questionsText(_)
questionsText(questions) ==
  IF questions = << >> THEN << >>
  ELSE questionText(Head(questions)) \o questionsText(Tail(questions))

RECURSIVE typosHtml(_)
typosHtml(typos) ==
  IF typos = << >> THEN << >>
  ELSE <<"<li>">> \o typoItem(Head(typos)) \o <<"</li>">> \o typosHtml(Tail(typos))

RECURSIVE typosText(_)
typosText(typos) ==
  IF typos = << >> THEN << >>
  ELSE <<"bullet", " ">> \o typoItem(Head(typos)) \o <<"\n">> \o typosText(Tail(typos))

\* json.typos && json.typos.length > 0, for a list of typos or no list
typosOf(json) == IF IsArray(Prop(json, "typos")) THEN json.typos.el ELSE << >>

bodyHtmlOf(json) ==
  <<"<p>">> \o ToStringChars(Prop(json, "opening")) \o <<"</p>">>
    \o (IF Truthy(Prop(json, "assumptionsBlock"))
        THEN <<"<p><strong>Assumptions based on previous responses:</strong><br/>">>
               \o ToStringChars(json.assumptionsBlock) \o <<"</p>">>
        ELSE << >>)
    \o <<"<ul>">> \o questionsHtml(json.questions.el) \o <<"</ul>">>
    \o (IF typosOf(json) # << >>
        THEN <<"<p><strong>Typos:</strong></p><ul>">> \o typosHtml(typosOf(json)) \o <<"</ul>">>
        ELSE << >>)
    \o <<"<p>">> \o ToStringChars(Prop(json, "closing")) \o <<"</p><p>">>
    \o ToStringChars(Prop(json, "signature")) \o <<"</p>">>

bodyTextOf(json) ==
  ToStringChars(Prop(json, "opening")) \o <<"\n", "\n">>
    \o (IF Truthy(Prop(json, "assumptionsBlock"))
        THEN <<"Assumptions based on previous responses:", "\n">>
               \o ToStringChars(json.assumptionsBlock) \o <<"\n", "\n">>
        ELSE << >>)
    \o questionsText(json.questions.el)
    \o (IF typosOf(json) # << >>
        THEN <<"\n", "Typos:", "\n">> \o typosText(typosOf(json)) ELSE << >>)
    \o <<"\n">> \o ToStringChars(Prop(json, "closing")) \o <<"\n">>
    \o ToStringChars(Prop(json, "signature"))

constructEmailBody(json) ==
  IF ~IsObject(json) \/ ~IsArray(Prop(json, "questions")) THEN TypeError
  ELSE IF \E i \in DOMAIN json.questions.el : ~readable(json.questions.el[i]) THEN TypeError
  ELSE IF \E i \in DOMAIN typosOf(json) : Nullish(typosOf(json)[i]) THEN TypeError
  ELSE [k |-> "object", bodyHtml |-> Str(bodyHtmlOf(json)), bodyText |-> Str(bodyTextOf(json))]

\* f.message.includes('pageRef') || f.message.includes('sectionTitle')
mentionsReference(f) == includes(f.message, <<"p", "a", "g", "e", "R", "e", "f">>) \/ includes(f.message, <<"s", "e", "c", "t", "i", "o", "n", "T", "i", "t", "l", "e">>)

EmailResult(generatedJson, body, flags) ==
  [k |-> "object",
   email |-> [k |-> "object", subject |-> Prop(generatedJson, "subject"),
              bodyHtml |-> body.bodyHtml, bodyText |-> body.bodyText],
   metadata |-> [k |-> "object",
                 toneCheckPassed |-> Bool(~\E i \in DOMAIN flags : flags[i].type = "error"),
                 referencesCheckPassed |-> Bool(~\E i \in DOMAIN flags : mentionsReference(flags[i])),
                 followUpSchedule |-> Prop(generatedJson, "followUps")],
   flags |-> Arr(flags)]

\* text.replace(/<fence>json\n|<fence>/g, ''): of an opening fence with no
\* newline after it the word json stays in the text
RECURSIVE emailStripFences(_)
emailStripFences(text) ==
  IF text = << >> THEN << >>
  ELSE IF Head(text) = FenceJson
       THEN IF Tail(text) # << >> /\ Head(Tail(text)) = Nl
            THEN emailStripFences(Tail(Tail(text)))
            ELSE <<Prose>> \o emailStripFences(Tail(text))
  ELSE IF Head(text) = Fence THEN emailStripFences(Tail(text))
  ELSE <<Head(text)>> \o emailStripFences(Tail(text))

EmailApiKeyMissing == Error(<<"GEMINI_API_KEY environment variable not set">>)

emailOf(generatedJson, flags) ==
  IF IsThrow(flags) THEN flags
  ELSE IF IsThrow(constructEmailBody(withQuestions(generatedJson)))
       THEN constructEmailBody(withQuestions(generatedJson))
  ELSE EmailResult(generatedJson, constructEmailBody(withQuestions(generatedJson)), flags.el)

emailFrom(generatedJson) ==
  IF IsThrow(generatedJson) THEN generatedJson
  ELSE emailOf(generatedJson, runPostProcessorChecks(generatedJson))

generateReviewEmail(apiKey, model) ==
  IF ~apiKey THEN EmailApiKeyMissing
  ELSE IF model.o = "error" THEN ApiError
  ELSE emailFrom(JSONparse(emailStripFences(model.text)))

(***************************************************************************)
(* The drafts the model can answer with: a sound question and questions    *)
(* that differ from it in one or two fields, in drafts that differ in the  *)
(* texts around the questions.                                             *)
(***************************************************************************)
MaxQuestions == 2

Evidence(sectionTitle, pageRef) ==
  [k |-> "object", sectionTitle |-> sectionTitle, pageRef |-> pageRef]

SoundQuestion ==
  [k |-> "object", type |-> Str(<<"q", "u", "e", "s", "t", "i", "o", "n">>), title |-> Str(<<"F", "e", "e", "s">>), issue |-> Str(<<"F", "e", "e">>),
   evidence |-> Evidence(Str(<<"S", "1">>), Str(<<"p", ".", " ", "3">>)),
   proposedSolution |-> Str(<<"s", "e", "n", "d", " ", "U", "p", "d", "a", "t", "e", "d", " ", "P", "D", "F">>), requestUpdatedPDF |-> Bool(TRUE)]

PageRefs ==
  {Str(<<"p", "a", "g", "e", " ", "3">>), Str(<<"p", "p", ".", " ", "1", "2">>), Str(<<"p", ".", " ", "3", "a">>), Str(<<"p", ".", " ", "x">>), Str(<<"p", ".", "3">>), Str(<<"P", ".", " ", "3">>),
   Str(<<"p", ".", " ", "1", "2">>), EmptyStr, Undef, Num(3)}

Solutions == {Str(<<"f", "i", "x">>), Str(<<"R", "E", "V", "I", "S", "E", "D">>), Str(<<"u", "n", "r", "e", "v", "i", "s", "e", "d">>), Str(<<"u", "p", "d", "a", "t", "e">>), Undef}

Questions ==
  {SoundQuestion, Null,
   [k |-> "object", title |-> Str(<<"F", "e", "e", "s">>)],
   [SoundQuestion EXCEPT !.type = EmptyStr],
   [SoundQuestion EXCEPT !.evidence = Undef],
   [SoundQuestion EXCEPT !.evidence = Evidence(EmptyStr, Str(<<"p", ".", " ", "3">>))],
   [SoundQuestion EXCEPT !.evidence = Evidence(Undef, Str(<<"p", "a", "g", "e", " ", "3">>))],
   [SoundQuestion EXCEPT !.proposedSolution = Str(<<"f", "i", "x">>), !.title = Str(<<"p", "a", "g", "e", "R", "e", "f">>)],
   [SoundQuestion EXCEPT !.proposedSolution = Str(<<"f", "i", "x">>), !.requestUpdatedPDF = Bool(FALSE)],
   [SoundQuestion EXCEPT !.title = Str(<<"S", "u", "b", "s", "c", "r", "i", "b", "e", "r">>), !.issue = Str(<<"I", "n", "v", "e", "s", "t", "o", "r">>)],
   [SoundQuestion EXCEPT !.issue = Str(<<"S", "u", "b", "s", "c", "r", "i", "b", "e", "r", "s">>)],
   [SoundQuestion EXCEPT !.issue = Str(<<"F", "u", "n", "d">>), !.proposedSolution = Str(<<"P", "a", "r", "t", "n", "e", "r", "s", "h", "i", "p">>),
                         !.requestUpdatedPDF = Bool(FALSE)]}
    \cup {[SoundQuestion EXCEPT !.evidence = Evidence(Str(<<"S", "1">>), p)] : p \in PageRefs}
    \cup {[SoundQuestion EXCEPT !.proposedSolution = s] : s \in Solutions}

\* The questions that drafts of several questions are made of.
PairedQuestions ==
  {SoundQuestion,
   [k |-> "object", title |-> Str(<<"F", "e", "e", "s">>)],
   [SoundQuestion EXCEPT !.evidence = Evidence(Str(<<"S", "1">>), Str(<<"p", "a", "g", "e", " ", "3">>))],
   [SoundQuestion EXCEPT !.evidence = Evidence(Str(<<"S", "1">>), Str(<<"p", "p", ".", " ", "1", "2">>))],
   [SoundQuestion EXCEPT !.proposedSolution = Str(<<"f", "i", "x">>), !.title = Str(<<"p", "a", "g", "e", "R", "e", "f">>)],
   [SoundQuestion EXCEPT !.proposedSolution = Undef],
   [SoundQuestion EXCEPT !.title = Str(<<"S", "u", "b", "s", "c", "r", "i", "b", "e", "r">>), !.issue = Str(<<"I", "n", "v", "e", "s", "t", "o", "r">>)],
   [SoundQuestion EXCEPT !.issue = Str(<<"S", "u", "b", "s", "c", "r", "i", "b", "e", "r", "s">>)]}

QuestionLists == SeqsUpTo(PairedQuestions, MaxQuestions) \cup {<<q>> : q \in Questions}

Typo(pageRef, excerpt, suggestedFix) ==
  [k |-> "object", pageRef |-> pageRef, excerpt |-> excerpt, suggestedFix |-> suggestedFix]

Draft(opening, assumptionsBlock, questions, typos, signature) ==
  [k |-> "object", subject |-> Str(<<"R", "e", "v", "i", "e", "w">>), opening |-> opening,
   assumptionsBlock |-> assumptionsBlock, questions |-> questions, typos |-> typos,
   closing |-> Str(<<"T", "h", "a", "n", "k", "s">>), signature |-> signature, followUps |-> Arr(<< >>)]

Drafts ==
  UNION {{Draft(Str(<<"H", "e", "l", "l", "o">>), Undef, Arr(qs), Undef, Str(<<"O", "p", "s">>)),
          Draft(Str(<<"D", "e", "a", "r", " ", "I", "n", "v", "e", "s", "t", "o", "r">>), Str(<<"A", "p", "p", "l", "i", "c", "a", "n", "t">>), Arr(qs), Arr(<< >>), Str(<<"O", "p", "s">>)),
          Draft(Str(<<"H", "e", "l", "l", "o">>), EmptyStr, Arr(qs),
                Arr(<<Typo(Str(<<"p", ".", " ", "1">>), Str(<<"F", "u", "n", "d">>), Str(<<"P", "a", "r", "t", "n", "e", "r", "s", "h", "i", "p">>))>>), Str(<<"F", "u", "n", "d">>))} :
         qs \in QuestionLists}
    \cup {Draft(Str(<<"H", "e", "l", "l", "o">>), Undef, Undef, Arr(<<Null>>), Str(<<"O", "p", "s">>)),
          [k |-> "object"], Null, Num(7)}

\* What model.generateContent settles with for a draft.
EmailResponses(json) ==
  {[k |-> "outcome", o |-> "response", text |-> t] :
     t \in {<<Json(json)>>, <<FenceJson, Nl, Json(json), Nl, Fence>>,
            <<FenceJson, Json(json), Fence>>, <<Json(json), Nl, Prose>>}}
    \cup {[k |-> "outcome", o |-> "error"]}

InitEmail ==
  /\ pc = "draft"
  /\ inp \in [json : Drafts]
  /\ out = << >>

\* lib/email.ts generateReviewEmail
GenerateReviewEmail ==
  /\ pc = "draft"
  /\ \E apiKey \in BOOLEAN, model \in EmailResponses(inp.json) :
       /\ inp' = [json |-> inp.json, apiKey |-> apiKey, model |-> model]
       /\ out' = <<generateReviewEmail(apiKey, model)>>
  /\ pc' = "generateReviewEmail"

\* lib/email.ts runPostProcessorChecks
RunPostProcessorChecks ==
  /\ pc = "draft"
  /\ out' = <<runPostProcessorChecks(inp.json)>>
  /\ pc' = "runPostProcessorChecks"
  /\ UNCHANGED inp

\* lib/email.ts constructEmailBody
ConstructEmailBody ==
  /\ pc = "draft"
  /\ out' = <<constructEmailBody(inp.json)>>
  /\ pc' = "constructEmailBody"
  /\ UNCHANGED inp

\* lib/email.ts checkTerminology, on the text of the terminology check
CheckTerminology ==
  /\ pc = "draft"
  /\ IsObject(inp.json)
  /\ out' = <<Arr(checkTerminology(emailText(inp.json)))>>
  /\ pc' = "checkTerminology"
  /\ UNCHANGED inp

NextEmail == GenerateReviewEmail \/ RunPostProcessorChecks \/ ConstructEmailBody \/ CheckTerminology

SpecEmail == InitEmail /\ [][NextEmail]_vars

(***************************************************************************)
(* The request handlers that analyse an upload and save the result         *)
(* (unnamed/part_016, unnamed/part_015), from the model call on. db is     *)
(* what the insert into demo_requests resolves with.                       *)
(***************************************************************************)
Response(status, body) == [k |-> "object", status |-> status, body |-> body]

\* normalizeData(await callGemini(base64File), file.originalFilename)
normalizedOf(parsed, fileName) ==
  IF IsThrow(parsed) THEN parsed ELSE normalizeData(parsed, fileName)

\* lib/review.ts saveToSupabase, saveToSupabaseServer
saveToSupabase(db) ==
  IF db = "error" THEN [k |-> "object", error |-> Word("insert failed")]
  ELSE [k |-> "object", id |-> Word("row-1")]

\* part_016, the catch block
errorResponse(e) ==
  CASE e.msg = <<"Model timeout">> -> Response(504, [error |-> e.msg])
    [] e.msg = <<"Bad model JSON">> -> Response(502, [error |-> e.msg])
    [] OTHER -> Response(500, [error |-> e.msg])

savedResponse_Failing(normalizedData, saved) ==
  IF "error" \in DOMAIN saved
  THEN Response(500, [error |-> <<"db_insert_failed">>])
  ELSE Response(200, [ok |-> TRUE, data |-> normalizedData, id |-> saved.id])

\* part_016, from the result of saveToSupabase to the response
savedResponse(normalizedData, saved) ==
  IF "error" \in DOMAIN saved
  THEN Response(200, [ok |-> TRUE, data |-> normalizedData,
                      warning |-> "db_insert_failed", dbError |-> saved.error])
  ELSE Response(200, [ok |-> TRUE, data |-> normalizedData, id |-> saved.id])

respond(normalizedData, db) ==
  IF IsThrow(normalizedData) THEN errorResponse(normalizedData)
  ELSE savedResponse(normalizedData, saveToSupabase(db))

\* unnamed/part_016 handler
handler_part_016(apiKey, model, fileName, db) ==
  respond(normalizedOf(callGemini(apiKey, model), fileName), db)

\* part_015: the catch block answers every error with status 500, and the
\* error of the insert is logged only
respondServer(normalizedData, db) ==
  IF IsThrow(normalizedData) THEN Response(500, [error |-> normalizedData.msg])
  ELSE Response(200, [ok |-> TRUE, data |-> normalizedData])

\* unnamed/part_015 handler
handler_part_015(apiKey, model, fileName, db) ==
  respondServer(normalizedOf(callGemini(apiKey, model), fileName), db)

DbOutcomes == {"ok", "error"}

Handler016 ==
  /\ pc = "request"
  /\ \E apiKey \in BOOLEAN, model \in GeminiOutcomes, db \in DbOutcomes :
       /\ inp' = [fileName |-> inp.fileName, apiKey |-> apiKey, model |-> model, db |-> db]
       /\ out' = <<handler_part_016(apiKey, model, inp.fileName, db)>>
  /\ pc' = "handler_part_016"

Handler015 ==
  /\ pc = "request"
  /\ \E apiKey \in BOOLEAN, model \in GeminiOutcomes, db \in DbOutcomes :
       /\ inp' = [fileName |-> inp.fileName, apiKey |-> apiKey, model |-> model, db |-> db]
       /\ out' = <<handler_part_015(apiKey, model, inp.fileName, db)>>
  /\ pc' = "handler_part_015"

NextRequest == Handler016 \/ Handler015 \/ ProcessDocumentSecurely

SpecRequest == InitModel /\ [][NextRequest]_vars

(***************************************************************************)
(* The match loop of LocalPatternProcessor.findPatternMatches, one call of *)
(* exec at a time, for the rules of a processor to which addRule may have  *)
(* added rules.  The expression of an added rule can be any RegExp: it may *)
(* lack the g flag, and it may match the empty text (x?, \s*, \b), which   *)
(* the field empty records.                                                *)
(***************************************************************************)
MaxMatches == 4
MaxAdded == 1

CustomRule(id, units, global, empty) ==
  [id |-> id, type |-> "other", units |-> units, global |-> global, enabled |-> TRUE,
   empty |-> empty]

CustomRules ==
  {CustomRule("custom_words", {"teh"}, TRUE, FALSE),
   CustomRule("custom_first", {"teh"}, FALSE, FALSE),
   CustomRule("custom_optional", {"teh"}, TRUE, TRUE),
   CustomRule("custom_optional_once", {"teh"}, FALSE, TRUE)}

\* the expression of the rule matches the empty text
matchesEmpty(rule) == "empty" \in DOMAIN rule /\ rule.empty

\* the length of the match of the expression at position p, -1 when there
\* is none: a unit is preferred to the empty text
matchLength(rule, content, p) ==
  IF p < Len(content) /\ content[p + 1] \in rule.units THEN 1
  ELSE IF matchesEmpty(rule) THEN 0 ELSE -1

\* the positions from which exec can match, from where it starts looking
execHits(rule, content, lastIndex) ==
  {p \in (IF rule.global THEN lastIndex ELSE 0)..Len(content) :
     matchLength(rule, content, p) >= 0}

\* rule.pattern.exec(content) when rule.pattern.lastIndex is lastIndex: the
\* leftmost match at or after lastIndex (after 0 without the g flag); with
\* the g flag lastIndex becomes the end of the match, and 0 when nothing is
\* found.  exec does not step over an empty match.
exec(rule, content, lastIndex) ==
  IF execHits(rule, content, lastIndex) = {}
  THEN [found |-> FALSE, lastIndex |-> IF rule.global THEN 0 ELSE lastIndex]
  ELSE LET p == CHOOSE a \in execHits(rule, content, lastIndex) :
                  \A b \in execHits(rule, content, lastIndex) : a <= b
       IN [found |-> TRUE, index |-> p,
           text |-> IF matchLength(rule, content, p) = 1 THEN content[p + 1] ELSE "",
           lastIndex |-> IF rule.global THEN p + matchLength(rule, content, p)
                         ELSE lastIndex]

\* the element the loop pushes for a match
matchRecord(m, content) ==
  [text |-> m.text, index |-> m.index,
   page |-> getPageNumber(m.index, splitIntoPages(content)),
   context |-> getContext(content, m.index)]

MatchContents ==
  {<< >>, <<"teh">>, <<"x">>, <<"teh", " ", "teh">>, <<"x", "teh">>, <<"teh", "teh", "x">>}

InitMatch ==
  /\ pc = "rules"
  /\ inp \in [content : MatchContents, rules : {defaultRules}]
  /\ out = << >>

\* LocalPatternProcessor.addRule
AddRule ==
  /\ pc = "rules"
  /\ Len(inp.rules) < Len(defaultRules) + MaxAdded
  /\ \E rule \in CustomRules : inp' = [inp EXCEPT !.rules = Append(@, rule)]
  /\ UNCHANGED <<pc, out>>

\* findPatternMatches up to the loop: matches is empty and lastIndex is 0
FindPatternMatches ==
  /\ pc = "rules"
  /\ \E i \in DOMAIN inp.rules :
       inp' = [content |-> inp.content, rules |-> inp.rules, rule |-> inp.rules[i],
               lastIndex |-> 0]
  /\ out' = << >>
  /\ pc' = "exec"

\* one evaluation of the loop condition: exec finds nothing and the function
\* returns
ExecNull ==
  /\ pc = "exec"
  /\ ~exec(inp.rule, inp.content, inp.lastIndex).found
  /\ inp' = [inp EXCEPT !.lastIndex = exec(inp.rule, inp.content, inp.lastIndex).lastIndex]
  /\ pc' = "findPatternMatches"
  /\ UNCHANGED out

\* one turn of the loop: exec finds a match, the match is pushed, and the
\* loop is left when the expression is not global
ExecMatch ==
  /\ pc = "exec"
  /\ Len(out) < MaxMatches
  /\ exec(inp.rule, inp.content, inp.lastIndex).found
  /\ out' = Append(out, matchRecord(exec(inp.rule, inp.content, inp.lastIndex), inp.content))
  /\ inp' = [inp EXCEPT !.lastIndex = exec(inp.rule, inp.content, inp.lastIndex).lastIndex]
  /\ pc' = IF inp.rule.global THEN "exec" ELSE "findPatternMatches"

NextMatch == AddRule \/ FindPatternMatches \/ ExecNull \/ ExecMatch

SpecMatch == InitMatch /\ [][NextMatch]_vars

(***************************************************************************)
(* Properties of the email post-processor                                  *)
(***************************************************************************)
\* generateReviewEmail returned an EmailGenerationResult
EmailReturned == pc = "generateReviewEmail" /\ IsObject(out[1])

\* the text is 'p. ' followed by digits and nothing else
IsPageRef(cs) ==
  /\ Len(cs) > 3
  /\ SubSeq(cs, 1, 3) = <<"p", ".", " ">>
  /\ \A i \in 4..Len(cs) : IsDigit(cs[i])

\* the question gives a page reference that has not that form
MalformedPageRef(q) ==
  /\ Truthy(Prop(Prop(q, "evidence"), "pageRef"))
  /\ ~IsPageRef(ToStringChars(Prop(Prop(q, "evidence"), "pageRef")))

HasFlag(flags, f) == \E i \in DOMAIN flags : flags[i] = f

\* C11: in a returned result, every question whose evidence.pageRef is
\* present and is not exactly 'p. <digits>' has a warning flag about its
\* page reference, and referencesCheckPassed is false.
C11_MalformedPageRefFlagged ==
  EmailReturned =>
    \A i \in DOMAIN questionsOf(inp.json) :
      MalformedPageRef(questionsOf(inp.json)[i]) =>
        /\ HasFlag(out[1].flags.el,
                   Flag("warning", IncorrectPageRefMessage(Prop(questionsOf(inp.json)[i], "title"))))
        /\ out[1].metadata.referencesCheckPassed = Bool(FALSE)

\* C12: in a returned result, toneCheckPassed is false exactly when a flag
\* has type error, and referencesCheckPassed is false exactly when the
\* reference check raised a flag; the flags of the other checks do not
\* count, whatever the titles hold.
C12_ChecksPassedFlags ==
  EmailReturned =>
    /\ (out[1].metadata.toneCheckPassed = Bool(FALSE))
         <=> (\E i \in DOMAIN out[1].flags.el : out[1].flags.el[i].type = "error")
    /\ (out[1].metadata.referencesCheckPassed = Bool(FALSE))
         <=> (referenceCheck(questionsOf(inp.json)).el # << >>)

\* the number of terms of a group that a text uses
TermsUsed(terms, text) == Cardinality({i \in DOMAIN terms : includes(text, terms[i])})

\* a warning flag whose message begins with the label of a group
TerminologyFlagged(flags, label) ==
  \E i \in DOMAIN flags :
    /\ flags[i].type = "warning"
    /\ Len(flags[i].message) >= Len(label)
    /\ SubSeq(flags[i].message, 1, Len(label)) = label

\* C13: when the rendered body of a returned email uses more than one term
\* of the investor group, or of the fund group, the flags hold a
\* terminology warning for that group.
C13_TerminologyFlagged ==
  EmailReturned =>
    /\ TermsUsed(investorTerms, out[1].email.bodyText.cs) > 1
         => TerminologyFlagged(out[1].flags.el, InvestorLabel)
    /\ TermsUsed(fundTerms, out[1].email.bodyText.cs) > 1
         => TerminologyFlagged(out[1].flags.el, FundLabel)

\* the question has no type, or an empty one
LacksNonEmptyType(q) == Nullish(Prop(q, "type")) \/ Prop(q, "type") = EmptyStr

SomeQuestionLacksType ==
  \E i \in DOMAIN questionsOf(inp.json) : LacksNonEmptyType(questionsOf(inp.json)[i])

\* The failures of generateReviewEmail that come before the checks.
EarlierFailures == {EmailApiKeyMissing, ApiError, SyntaxError}

\* C14: a draft with a question that lacks a non-empty type makes
\* generateReviewEmail fail: nothing is returned, and the failure is the one
\* of the completeness check (or an earlier one), not one of a later check
\* or of the rendering. A question that is null fails as a TypeError in the
\* same loop.
C14_MissingTypeFailsFast ==
  (pc \in {"generateReviewEmail", "runPostProcessorChecks"} /\ SomeQuestionLacksType) =>
    /\ IsThrow(out[1])
    /\ (\A i \in DOMAIN questionsOf(inp.json) : ~Nullish(questionsOf(inp.json)[i])) =>
         out[1] \in (IF pc = "generateReviewEmail" THEN EarlierFailures ELSE {})
                      \cup {MissingType}

\* a draft whose first question would be flagged, and would make a later
\* check fail, and whose second question has no type, was rejected by the
\* completeness check
C14_RejectedBeforeFlags ==
  /\ pc = "generateReviewEmail"
  /\ Len(questionsOf(inp.json)) = 2
  /\ Nullish(Prop(questionsOf(inp.json)[1], "proposedSolution"))
  /\ LacksNonEmptyType(questionsOf(inp.json)[2])
  /\ out[1] = MissingType

\* the text of a proposed solution, empty when the draft gives none
SolutionText(q) ==
  IF Prop(q, "proposedSolution").k = "string" THEN q.proposedSolution.cs ELSE << >>

\* the question asks for an updated PDF and its solution says neither
\* updated nor revised, in any case of the letters
NeedsUpdatedPdfFlag(q) ==
  /\ Prop(q, "requestUpdatedPDF") = Bool(TRUE)
  /\ ~includes(toLowerCase(SolutionText(q)), <<"u", "p", "d", "a", "t", "e", "d">>)
  /\ ~includes(toLowerCase(SolutionText(q)), <<"r", "e", "v", "i", "s", "e", "d">>)

\* the flags the checks returned, alone or inside a returned result
ReturnedFlags ==
  IF pc = "runPostProcessorChecks" THEN out[1].el ELSE out[1].flags.el

\* C15: when the checks return, their flags hold, for every title, as many
\* updated-PDF warnings naming it as there are questions of that title that
\* ask for an updated PDF and whose proposed solution says neither updated
\* nor revised, in any case of the letters; a question that does not ask
\* for one, or says one of the words, gets none.
C15_UpdatedPdfFlags ==
  ((pc = "runPostProcessorChecks" /\ ~IsThrow(out[1])) \/ EmailReturned) =>
    \A i \in DOMAIN questionsOf(inp.json) :
      Cardinality({n \in DOMAIN ReturnedFlags :
         ReturnedFlags[n] = Flag("warning", UpdatedPdfMessage(Prop(questionsOf(inp.json)[i], "title")))})
        = Cardinality({n \in DOMAIN questionsOf(inp.json) :
            /\ Prop(questionsOf(inp.json)[n], "title") = Prop(questionsOf(inp.json)[i], "title")
            /\ NeedsUpdatedPdfFlag(questionsOf(inp.json)[n])})

\* of two questions that ask for an updated PDF, the one that says fix was
\* flagged and the one that says Updated was not
C15_OneOfTwoFlagged ==
  /\ pc = "runPostProcessorChecks"
  /\ ~IsThrow(out[1])
  /\ Len(questionsOf(inp.json)) = 2
  /\ NeedsUpdatedPdfFlag(questionsOf(inp.json)[1])
  /\ questionsOf(inp.json)[2].requestUpdatedPDF = Bool(TRUE)
  /\ includes(questionsOf(inp.json)[2].proposedSolution.cs, <<"U", "p", "d", "a", "t", "e", "d">>)
  /\ Cardinality({n \in DOMAIN out[1].el :
        out[1].el[n] = Flag("warning", UpdatedPdfMessage(questionsOf(inp.json)[1].title))}) = 1

(***************************************************************************)
(* Properties of the suggestion of a cross-reference issue                 *)
(***************************************************************************)
\* the labels that some page declares
DeclaredLabels(pages) ==
  {label \in {collectReferencedSections(pages)[n].label :
                n \in DOMAIN collectReferencedSections(pages)} : Declared(pages, label)}

\* the sequences that list every element of S once
Orderings(S) ==
  {f \in [1..Cardinality(S) -> S] : \A a, b \in 1..Cardinality(S) : f[a] = f[b] => a = b}

\* the suggestion that lists the labels in the order keys
SuggestionListing(keys) ==
  Str(<<"Remove/update the reference; declared sections: ">>
        \o (IF keys = << >> THEN <<"none">> ELSE JoinKeys(keys)) \o <<".">>)

AsStatedInSection5 == <<"As stated in", " ", "Section", " ", "5", ",", " ", "text">>

\* C16: the suggestion of every cross-reference issue lists exactly the
\* declared labels, or none when no label is declared; for the pages
\* 'Section 1: Intro', 'As stated in Section 5, text' the detector returns one
\* issue, on page 2, that names Section 5 and lists Section 1 as the only
\* declared section.
C16_SuggestionListsDeclared ==
  pc = "missingReferences" =>
    /\ IsArray(out[1])
    /\ \A n \in DOMAIN out[1].el :
         \E keys \in Orderings(DeclaredLabels(inp.pages)) :
           out[1].el[n].suggestion = SuggestionListing(keys)
    /\ inp.pages = <<Header1, AsStatedInSection5>> =>
         /\ Len(out[1].el) = 1
         /\ out[1].el[1].page = Num(2)
         /\ out[1].el[1].message = Str(<<"Reference to missing section: ", "Section", " ", "5">>)
         /\ out[1].el[1].suggestion = SuggestionListing(<< <<"Section", " ", "1">> >>)

(***************************************************************************)
(* Properties of the handlers when the insert fails                        *)
(***************************************************************************)
\* the value the request computed before the insert
Computed == normalizedOf(callGemini(inp.apiKey, inp.model), inp.fileName)

\* the result of the secure pipeline for the same request when the insert
\* succeeds
StoredSecurely ==
  processDocumentSecurely(inp.consent, inp.fileName, [inp.env EXCEPT !.store = Word("doc-1")])

\* C17: when the insert fails, the request ends as it does when the insert
\* succeeds: with status 200, ok and the whole computed result when the
\* analysis succeeded; the secure pipeline returns the result it returns
\* when the insert succeeds, with no document id.
C17_InsertFailureTolerated ==
  /\ (pc \in {"handler_part_016", "handler_part_015"} /\ inp.db = "error") =>
       /\ out[1].status =
            (IF pc = "handler_part_016"
             THEN handler_part_016(inp.apiKey, inp.model, inp.fileName, "ok")
             ELSE handler_part_015(inp.apiKey, inp.model, inp.fileName, "ok")).status
       /\ ~IsThrow(Computed) =>
            /\ out[1].status = 200
            /\ out[1].body.ok
            /\ out[1].body.data = Computed
  /\ (pc = "processDocumentSecurely" /\ inp.env.store = Null) =>
       IF IsThrow(StoredSecurely) THEN out[1] = StoredSecurely
       ELSE out[1] = [StoredSecurely EXCEPT !.documentId = Null]

\* the insert failed after an analysis that found two issues, and the
\* response carries both
C17_InsertFailedWithIssues ==
  /\ pc = "handler_part_016"
  /\ inp.db = "error"
  /\ out[1].status = 200
  /\ out[1].body.warning = "db_insert_failed"
  /\ Len(out[1].body.data.issues.el) = 2

(***************************************************************************)
(* Properties of the normalized page and of the normalized list            *)
(***************************************************************************)
\* the text of a raw page from its first character that is not a space, and
\* the run of digits that text begins with, after one sign
PageText(raw) == SkipSpace(ToStringChars(raw))

PageDigits(raw) ==
  DigitPrefix(IF PageText(raw) # << >> /\ Head(PageText(raw)) \in {"-", "+"}
              THEN Tail(PageText(raw)) ELSE PageText(raw))

\* the raw page reads as an integer that is at least 1
ReadsAsPositive(raw) ==
  /\ PageDigits(raw) # << >>
  /\ Head(PageText(raw)) # "-"
  /\ \E i \in DOMAIN PageDigits(raw) : PageDigits(raw)[i] # "0"

\* the page a normalizer must give a raw issue
ExpectedPage(issue) ==
  IF ReadsAsPositive(Prop(issue, "page"))
  THEN digitsToNumber(FALSE, PageDigits(Prop(issue, "page")))
  ELSE Num(1)

IsPositiveInteger(page) ==
  /\ page.k = "number"
  /\ IF IsSci(page) THEN ~page.neg ELSE page.n >= 1

\* C18: the page of every normalized issue is an integer that is at least
\* 1: the integer the raw page reads as when that is at least 1, and 1 when
\* the raw page is missing, does not read as a number, or reads as zero or
\* as a negative number.
C18_PageAtLeastOne ==
  /\ (pc \in {"normalizeData", "n8nNormalizeData"} /\ ~IsThrow(out[1]))
       => \A i \in 1..Len(out[1].issues.el) :
            /\ IsPositiveInteger(out[1].issues.el[i].page)
            /\ out[1].issues.el[i].page = ExpectedPage(inp.data.issues.el[i])
  /\ (pc = "normalizeIssue" /\ ~IsThrow(out[1]))
       => /\ IsPositiveInteger(out[1].page)
          /\ out[1].page = ExpectedPage(inp.data)

\* a negative page became 1 and a page that begins with 12 became 12
C18_NegativeAndPrefix ==
  /\ pc = "normalizeData"
  /\ ~IsThrow(out[1])
  /\ Len(out[1].issues.el) = 2
  /\ Prop(inp.data.issues.el[1], "page") = Str(<<"-", "4">>)
  /\ Prop(inp.data.issues.el[2], "page") = Str(<<"1", "2", "x">>)
  /\ out[1].issues.el[1].page = Num(1)
  /\ out[1].issues.el[2].page = Num(12)

\* the normalized issue is the one of the raw issue: its page and its texts
\* are those of the raw issue, coerced
NormalizedFrom(issue, raw) ==
  /\ issue.page = ExpectedPage(raw)
  /\ issue.message = coerceString(Prop(raw, "message"))
  /\ issue.original = coerceString(Prop(raw, "original"))
  /\ issue.suggestion = coerceString(Prop(raw, "suggestion"))
  /\ issue.locationHint = coerceString(Prop(raw, "locationHint"))

\* the elements of the input array; a value that is not an array has none
RawElements == IF IsArray(Prop(inp.data, "issues")) THEN inp.data.issues.el ELSE << >>

\* C19: normalizeData returns one issue for each element of the input
\* array, in the order of the input: the issue at a position is the one of
\* the element at that position; no issue is dropped, merged or moved, and
\* two equal elements give two issues.
C19_OneIssuePerElement ==
  (pc \in {"normalizeData", "n8nNormalizeData"} /\ ~IsThrow(out[1])) =>
    /\ Len(out[1].issues.el) = Len(RawElements)
    /\ \A i \in 1..Len(RawElements) :
         NormalizedFrom(out[1].issues.el[i], RawElements[i])

\* two equal raw issues gave two equal issues
C19_DuplicatesKept ==
  /\ pc = "normalizeData"
  /\ ~IsThrow(out[1])
  /\ Len(RawElements) = 2
  /\ RawElements[1] = RawElements[2]
  /\ Len(out[1].issues.el) = 2
  /\ out[1].issues.el[1] = out[1].issues.el[2]

(***************************************************************************)
(* Properties of the match loop                                            *)
(***************************************************************************)
\* C20: the match loop ends for every rule, added ones included: every turn
\* of the loop that is followed by another one moves lastIndex forward, so
\* the loop reaches the end of the content, and a rule whose expression is
\* not global never has more than one match.
C20_MatchLoopAdvances ==
  [][/\ (pc = "exec" /\ pc' = "exec") => inp'.lastIndex > inp.lastIndex
     /\ (pc' \in {"exec", "findPatternMatches"} /\ ~inp'.rule.global) => Len(out') <= 1]_vars

(***************************************************************************)
(* The deadline of the model call, step by step.  A call starts the        *)
(* request and arms a timer; the collaborator answers at a time of its own *)
(* choosing, the timer fires once the deadline has passed.  inp.request is *)
(* the state of the request on the network, inp.timer the state of the     *)
(* timer, inp.now the clock in minutes.                                    *)
(***************************************************************************)
\* lib/review.ts:7, company-llm.ts:35 (120000 ms), in minutes
MODEL_TIMEOUT == 2
MaxClock == 4

RacePaths == {"callGemini", "callGeminiTry", "n8nCallGemini", "callGeminiSecure"}
DeadlinePaths == RacePaths \cup {"callLLM"}

TimeoutOutcome == [k |-> "outcome", o |-> "timeout"]
DeadlineAnswers ==
  {[k |-> "outcome", o |-> "response", text |-> <<Json(DocTwo)>>],
   [k |-> "outcome", o |-> "response", text |-> <<Prose>>],
   [k |-> "outcome", o |-> "error"]}

InitDeadline ==
  /\ pc = "idle"
  /\ inp \in [path : DeadlinePaths, now : {0}, deadline : {0}, request : {"none"}, timer : {"none"}]
  /\ out = << >>

\* model.generateContent(...) / fetch(...) and setTimeout(...): no await
\* lies between the two, whichever comes first.
StartCall ==
  /\ pc = "idle"
  /\ inp' = [inp EXCEPT !.request = "running", !.timer = "armed",
                        !.deadline = inp.now + MODEL_TIMEOUT]
  /\ pc' = "awaiting"
  /\ UNCHANGED out

Tick ==
  /\ inp.now < MaxClock
  /\ inp' = [inp EXCEPT !.now = inp.now + 1]
  /\ UNCHANGED <<pc, out>>

\* Promise.race settles with the answer of the model; the timer stays armed.
ModelAnswers ==
  /\ pc = "awaiting" /\ inp.path \in RacePaths /\ inp.request = "running"
  /\ \E answer \in DeadlineAnswers : out' = <<PathResult(inp.path, answer)>>
  /\ inp' = [inp EXCEPT !.request = "answered"]
  /\ pc' = "settled"

\* setTimeout(() => reject(new Error('Model timeout')), MODEL_TIMEOUT): the
\* rejection settles the race if it is still open; nothing is done to the
\* request.
TimerRejects ==
  /\ inp.path \in RacePaths /\ inp.timer = "armed" /\ inp.now >= inp.deadline
  /\ inp' = [inp EXCEPT !.timer = "fired"]
  /\ IF pc = "awaiting"
     THEN pc' = "timedOut" /\ out' = <<PathResult(inp.path, TimeoutOutcome)>>
     ELSE UNCHANGED <<pc, out>>

\* The model answers a request whose race the timer has settled: the promise
\* resolves and nobody reads it.
LateAnswer ==
  /\ pc = "timedOut" /\ inp.request = "running"
  /\ inp' = [inp EXCEPT !.request = "answered"]
  /\ UNCHANGED <<pc, out>>

\* callLLM: fetch settles, clearTimeout(timeoutId)
FetchAnswers ==
  /\ pc = "awaiting" /\ inp.path = "callLLM" /\ inp.request = "running"
  /\ \E answer \in DeadlineAnswers \cup {[k |-> "outcome", o |-> "network"]} :
       out' = <<PathResult(inp.path, answer)>>
  /\ inp' = [inp EXCEPT !.request = "answered", !.timer = "cleared"]
  /\ pc' = "settled"

\* callLLM: setTimeout(() => controller.abort(), this.config.timeout); fetch
\* rejects with an AbortError, the catch clause throws the timeout error.
TimerAborts ==
  /\ pc = "awaiting" /\ inp.path = "callLLM" /\ inp.timer = "armed" /\ inp.now >= inp.deadline
  /\ inp' = [inp EXCEPT !.timer = "fired", !.request = "aborted"]
  /\ out' = <<PathResult(inp.path, TimeoutOutcome)>>
  /\ pc' = "timedOut"

NextDeadline ==
  \/ StartCall \/ Tick \/ ModelAnswers \/ TimerRejects \/ LateAnswer
  \/ FetchAnswers \/ TimerAborts

SpecDeadline == InitDeadline /\ [][NextDeadline]_vars

\* C21: once the deadline of a model call has elapsed and the timeout error
\* is surfaced, the request of that call is no longer running and the result
\* is still the timeout error (no late answer is consumed), on every path.
C21_TimedOutCallAbandoned ==
  pc = "timedOut" => /\ inp.request # "running"
                     /\ Len(out) = 1 /\ IsThrow(out[1])


(***************************************************************************)
(* The process-wide LocalPatternProcessor (getPatternProcessor): one rule  *)
(* list for every analysis of the process.  inp.rules is this.rules,       *)
(* inp.op the last operation called on the processor; out holds what that  *)
(* operation returned.                                                     *)
(***************************************************************************)
\* LocalPatternProcessor.toggleRule: find gives the first rule of that id
toggleRule(rules, ruleId, enabled) ==
  LET found == {i \in 1..Len(rules) : rules[i].id = ruleId}
  IN IF found = {} THEN rules
     ELSE [rules EXCEPT ![CHOOSE i \in found : \A j \in found : i <= j].enabled = enabled]

RECURSIVE Filter(_, _)
Filter(rules, ruleId) ==
  IF rules = << >> THEN << >>
  ELSE (IF Head(rules).id # ruleId THEN <<Head(rules)>> ELSE << >>) \o Filter(Tail(rules), ruleId)

\* LocalPatternProcessor.removeRule
removeRule(rules, ruleId) == Filter(rules, ruleId)

\* LocalPatternProcessor.addRule
addRule(rules, rule) == Append(rules, rule)

\* the rules a caller adds: expressions whose match loop ends, one of them
\* under the id of a rule built in
AddedRules ==
  {CustomRule("custom_words", {"teh"}, TRUE, FALSE),
   CustomRule("custom_first", {"Fund"}, FALSE, FALSE),
   CustomRule("common_typos", {"x"}, TRUE, FALSE)}

RuleIds == {"common_typos", "undefined_terms", "custom_words", "no_such_rule"}

ProcessorContents ==
  {<<"teh">>, <<"x">>, <<"Fund", " ", "teh", "\f", "Fund">>, <<"teh", "x", "teh">>}

Op(name, ruleId, enabled) == [name |-> name, id |-> ruleId, enabled |-> enabled]

InitProcessor ==
  /\ pc = "getPatternProcessor"
  /\ inp \in [rules : {defaultRules}, fileName : FileNames, content : {<< >>},
              op : {Op("new", "", TRUE)}]
  /\ out = << >>

ProcessorAddRule ==
  /\ Len(inp.rules) < Len(defaultRules) + MaxAdded
  /\ \E rule \in AddedRules :
       inp' = [inp EXCEPT !.rules = addRule(@, rule), !.op = Op("addRule", rule.id, TRUE)]
  /\ pc' = "addRule"
  /\ out' = << >>

RemoveRule ==
  /\ \E ruleId \in RuleIds :
       inp' = [inp EXCEPT !.rules = removeRule(@, ruleId), !.op = Op("removeRule", ruleId, TRUE)]
  /\ pc' = "removeRule"
  /\ out' = << >>

ToggleRule ==
  /\ \E ruleId \in RuleIds, enabled \in BOOLEAN :
       inp' = [inp EXCEPT !.rules = toggleRule(@, ruleId, enabled),
                          !.op = Op("toggleRule", ruleId, enabled)]
  /\ pc' = "toggleRule"
  /\ out' = << >>

\* processDocumentWithPatterns(content, fileName): processDocument holds no
\* await, so one analysis runs from start to end before anything else does.
ProcessDocumentWithPatterns ==
  /\ \E content \in ProcessorContents :
       /\ inp' = [inp EXCEPT !.content = content, !.op = Op("processDocument", "", TRUE)]
       /\ out' = <<processDocument(inp.rules, content, inp.fileName)>>
  /\ pc' = "processDocument"

NextProcessor == ProcessorAddRule \/ RemoveRule \/ ToggleRule \/ ProcessDocumentWithPatterns

SpecProcessor == InitProcessor /\ [][NextProcessor]_vars

\* C22: the issue list an analysis returns for a content is the one a newly
\* constructed processor returns for that content, whatever operations ran
\* on the process-wide processor before it.
C22_ResultDependsOnContentOnly ==
  pc = "processDocument"
    => out[1].issues = processDocument(defaultRules, inp.content, inp.fileName).issues


(***************************************************************************)
(* The secure pipeline with the process-wide sanitizer (getSanitizer).     *)
(* The expressions of the sanitizer rules carry the g flag, so each keeps  *)
(* a lastIndex between calls: inp.lastIndex[i] is that of rule i.          *)
(* inp.sent lists the requests a call of processDocumentSecurely made to   *)
(* a model.                                                                *)
(***************************************************************************)
SanitizationRule(replacement, units) ==
  [id |-> replacement, replacement |-> replacement, units |-> units, global |-> TRUE]

\* DocumentSanitizer.rules
sanitizerRules ==
  <<SanitizationRule("[SSN-REDACTED]", {"123-45-6789", "987-65-4321"}),
    SanitizationRule("[CARD-REDACTED]", {"4111 1111 1111 1111"}),
    SanitizationRule("[PHONE-REDACTED]", {"555-123-4567"}),
    SanitizationRule("[EMAIL-REDACTED]", {"a@b.co"}),
    SanitizationRule("[AMOUNT-REDACTED]", {"$500"}),
    SanitizationRule("[ACCOUNT-REDACTED]", {"12345678"}),
    SanitizationRule("[IP-REDACTED]", {"10.0.0.1"}),
    SanitizationRule("[DATE-REDACTED]", {"1/2/2021"})>>

LastIndexZero == [i \in 1..Len(sanitizerRules) |-> 0]

\* this.rules.some(rule => rule.pattern.test(content)) from rule i on: test
\* searches from the lastIndex of the expression and leaves it at the end of
\* the match, or at 0 when it finds nothing; some stops at the first hit.
RECURSIVE someTest(_, _, _)
someTest(lastIndex, content, i) ==
  IF i > Len(sanitizerRules) THEN [result |-> FALSE, lastIndex |-> lastIndex]
  ELSE IF exec(sanitizerRules[i], content, lastIndex[i]).found
       THEN [result |-> TRUE,
             lastIndex |-> [lastIndex EXCEPT ![i] = exec(sanitizerRules[i], content, @).lastIndex]]
       ELSE someTest([lastIndex EXCEPT ![i] = 0], content, i + 1)

\* DocumentSanitizer.detectSensitiveContent on the sanitizer whose
\* expressions stand at lastIndex
detectSensitiveContent(lastIndex, content) == someTest(lastIndex, content, 1)

\* DocumentSanitizer.sanitize: content.match(rule.pattern) and replace start
\* from 0 and leave lastIndex at 0.
sanitizeDocument(lastIndex, content) ==
  [result |-> [k |-> "object", sanitizedContent |-> sanitize(content)],
   lastIndex |-> LastIndexZero]

\* originalBuffer.toString('base64'): an encoding of the bytes of the file
toBase64(buffer) == [k |-> "base64", of |-> buffer]

\* the request of callGeminiSecure: the prompt, which differs by the note
\* on sanitization, and the file
geminiRequest(originalBuffer, wasSanitized) ==
  [to |-> "gemini", note |-> wasSanitized, data |-> toBase64(originalBuffer)]

\* the request of CompanyLLMService.analyzeDocument
companyRequest(documentContent, fileName, wasSanitized) ==
  [to |-> "company_llm", note |-> wasSanitized, documentContent |-> documentContent,
   fileName |-> fileName]

\* the requests step 5 of processDocumentSecurely makes to a model
requestsOf(consent, fileName, env, processedContent, wasSanitized) ==
  CASE consent.processingMethod = "external_ai" /\ env.apiKey ->
         <<geminiRequest(env.pdf, wasSanitized)>>
    [] consent.processingMethod = "company_llm" /\ env.model.o # "unconfigured" ->
         <<companyRequest(processedContent, fileName, wasSanitized)>>
    [] OTHER -> << >>

SecureTexts ==
  {<<"ok">>, <<"teh", " ", "123-45-6789">>, <<"teh", " ", "987-65-4321">>,
   <<"123-45-6789", "\f", "$500">>, <<"$500", "teh">>}
SecurePdfs == {[k |-> "outcome", o |-> "ok", text |-> t] : t \in SecureTexts}
                \cup {[k |-> "outcome", o |-> "fails"]}

SecureModelOutcomes(method) ==
  CASE method = "company_llm" ->
         {[k |-> "outcome", o |-> "response", text |-> <<Json(DocTwo)>>],
          [k |-> "outcome", o |-> "timeout"], [k |-> "outcome", o |-> "unconfigured"]}
    [] method = "external_ai" ->
         {[k |-> "outcome", o |-> "response", text |-> <<Json(DocTwo)>>],
          [k |-> "outcome", o |-> "timeout"]}
    [] OTHER -> {[k |-> "outcome", o |-> "unused"]}

InitSecure ==
  /\ pc = "getSanitizer"
  /\ inp \in [fileName : FileNames, lastIndex : {LastIndexZero}]
  /\ out = << >>

\* detectSensitiveContent(content), the exported function
DetectSensitiveContent ==
  /\ \E content \in SecureTexts :
       /\ inp' = [fileName |-> inp.fileName, content |-> content,
                  lastIndex |-> detectSensitiveContent(inp.lastIndex, content).lastIndex]
       /\ out' = <<Bool(detectSensitiveContent(inp.lastIndex, content).result)>>
  /\ pc' = "detectSensitiveContent"

\* sanitizeDocument(content), the exported function
SanitizeDocument ==
  /\ \E content \in SecureTexts :
       /\ inp' = [fileName |-> inp.fileName, content |-> content,
                  lastIndex |-> sanitizeDocument(inp.lastIndex, content).lastIndex]
       /\ out' = <<sanitizeDocument(inp.lastIndex, content).result>>
  /\ pc' = "sanitizeDocument"

\* the consent, the collaborators and the processed content of one call of
\* processDocumentSecurely: steps 2 and 3, detection being what
\* detectSensitiveContent answered and left behind
secureCall(detection, method, sanitizationRequired, explicitConsent, pdf, model) ==
  [consent |-> [processingMethod |-> method, sanitizationRequired |-> sanitizationRequired,
                explicitConsent |-> explicitConsent],
   env |-> [pdf |-> pdf, hasSensitiveContent |-> detection.result,
            apiKey |-> TRUE, model |-> model, encrypt |-> TRUE, store |-> Word("doc-1"),
            screenshot |-> Undef],
   wasSanitized |-> sanitizationRequired /\ detection.result,
   processedContent |->
     IF sanitizationRequired /\ detection.result
     THEN sanitizeDocument(detection.lastIndex, extractTextFromPdf(pdf)).result.sanitizedContent
     ELSE extractTextFromPdf(pdf),
   lastIndex |->
     IF sanitizationRequired /\ detection.result
     THEN sanitizeDocument(detection.lastIndex, extractTextFromPdf(pdf)).lastIndex
     ELSE detection.lastIndex]

\* the state a call leaves: the sanitizer, what the call was given and the
\* requests it made
secureState(fileName, call) ==
  [g \in {"fileName", "sent"} \cup DOMAIN call |->
     CASE g = "fileName" -> fileName
       [] g = "sent" -> requestsOf(call.consent, fileName, call.env, call.processedContent,
                                   call.wasSanitized)
       [] OTHER -> call[g]]

\* SecureReviewService.processDocumentSecurely
SecureRequest ==
  /\ \E method \in Methods, sanitizationRequired \in BOOLEAN, explicitConsent \in BOOLEAN,
        pdf \in SecurePdfs :
       \E model \in SecureModelOutcomes(method) :
         /\ inp' = secureState(inp.fileName,
                               secureCall(detectSensitiveContent(inp.lastIndex,
                                                                 extractTextFromPdf(pdf)),
                                          method, sanitizationRequired, explicitConsent,
                                          pdf, model))
         /\ out' = <<processDocumentSecurely(inp'.consent, inp.fileName, inp'.env)>>
  /\ pc' = "processDocumentSecurely"

NextSecure == DetectSensitiveContent \/ SanitizeDocument \/ SecureRequest

SpecSecure == InitSecure /\ [][NextSecure]_vars

\* C23: a call of processDocumentSecurely with processingMethod 'external_ai'
\* and explicitConsent = false makes no request to the external model.
C23_NoConsentNoExternalRequest ==
  (pc = "processDocumentSecurely"
     /\ inp.consent.processingMethod = "external_ai" /\ ~inp.consent.explicitConsent)
    => \A i \in 1..Len(inp.sent) : inp.sent[i].to # "gemini"

\* C24: when sanitization was applied, the request to the external model is
\* the same for every document that has the same sanitized content, that is
\* for documents that differ only in the values that were redacted.
C24_SanitizedPayloadOnly ==
  (pc = "processDocumentSecurely" /\ inp.wasSanitized
     /\ inp.consent.processingMethod = "external_ai")
    => \A pdf \in SecurePdfs :
         (pdf.o = "ok" /\ sanitize(pdf.text) = inp.processedContent)
           => inp.sent = <<geminiRequest(pdf, TRUE)>>

\* C30: whatever calls came before, detectSensitiveContent(content) is true
\* exactly when the content holds a stretch some rule matches, and a request
\* with sanitizationRequired on such a document is processed on the
\* sanitized content.
C30_DetectionIndependentOfHistory ==
  /\ pc = "detectSensitiveContent" => out[1] = Bool(HasSensitiveUnit(inp.content))
  /\ (pc = "processDocumentSecurely" /\ inp.consent.sanitizationRequired
        /\ HasSensitiveUnit(extractTextFromPdf(inp.env.pdf)))
       => inp.processedContent = sanitize(extractTextFromPdf(inp.env.pdf))


(***************************************************************************)
(* SecureScreenshotManager (lib/secure-screenshot.ts).  inp.files is the   *)
(* set of encrypted files of the secure directory, inp.index the content   *)
(* of screenshot-metadata.json, inp.now the clock in hours.  inp.generated *)
(* records, for every id given out, who generated the screenshot and when  *)
(* it expires; inp.op is the last call.  encryptDocument, decryptDocument  *)
(* and the renderer are collaborators that answer or fail.                 *)
(***************************************************************************)
MaxScreenshots == 2
MaxTime == 3

Users == {"alice", "bob"}
RetentionHours == {0, 1, 2}

Metadata(id, userId, expiresAt) == [id |-> id, userId |-> userId, expiresAt |-> expiresAt]
ImageOf(id) == [k |-> "buffer", image |-> id]
EncryptedScreenshot(metadata, buffer) ==
  [metadata |-> metadata, encryption |-> [k |-> "encrypted", data |-> buffer]]

\* loadEncryptedScreenshot(id): null when there is no file of that id
loadEncryptedScreenshot(files, id) ==
  IF \E f \in files : f.metadata.id = id
  THEN CHOOSE f \in files : f.metadata.id = id
  ELSE Null

\* updateMetadataIndex: the new entry is pushed and only the entries that
\* have not expired are written back
updateMetadataIndex(index, metadata, now) ==
  LET notExpired(m) == now < m.expiresAt
  IN SelectSeq(Append(index, metadata), notExpired)

\* deleteExpiredScreenshot: the file is unlinked and the entry taken out of
\* the index
deleteExpiredScreenshot(store, id) ==
  LET other(m) == m.id # id
  IN [files |-> {f \in store.files : f.metadata.id # id},
      index |-> SelectSeq(store.index, other)]

\* the loop of cleanupExpiredScreenshots over the entries of the index as
\* loaded at the start
RECURSIVE cleanupLoop(_, _, _)
cleanupLoop(store, metadata, now) ==
  IF metadata = << >> THEN [store |-> store, cleanedCount |-> 0]
  ELSE IF now > Head(metadata).expiresAt
       THEN [store |-> cleanupLoop(deleteExpiredScreenshot(store, Head(metadata).id),
                                   Tail(metadata), now).store,
             cleanedCount |-> 1 + cleanupLoop(deleteExpiredScreenshot(store, Head(metadata).id),
                                              Tail(metadata), now).cleanedCount]
       ELSE cleanupLoop(store, Tail(metadata), now)

\* SecureScreenshotManager.cleanupExpiredScreenshots
cleanupExpiredScreenshots(store, now) == cleanupLoop(store, store.index, now)

\* the owner check of getSecureScreenshot and deleteScreenshot
isOwner_Anyone(metadata, userId) == TRUE
isOwner(metadata, userId) == metadata.userId = userId

\* the expiry check of getSecureScreenshot
isExpired(metadata, now) == now > metadata.expiresAt

\* SecureScreenshotManager.getSecureScreenshot: what it returns and the
\* store it leaves
getSecureScreenshot(store, screenshotId, userId, now, decrypts) ==
  LET encryptedScreenshot == loadEncryptedScreenshot(store.files, screenshotId)
  IN IF encryptedScreenshot = Null THEN [store |-> store, result |-> Null]
     ELSE IF isExpired(encryptedScreenshot.metadata, now)
     THEN [store |-> deleteExpiredScreenshot(store, screenshotId), result |-> Null]
     ELSE IF ~isOwner(encryptedScreenshot.metadata, userId) \/ ~decrypts
     THEN [store |-> store, result |-> Null]
     ELSE [store |-> store,
           result |-> [k |-> "object", buffer |-> encryptedScreenshot.encryption.data,
                       metadata |-> encryptedScreenshot.metadata]]

\* SecureScreenshotManager.deleteScreenshot
deleteScreenshot(store, screenshotId, userId) ==
  LET encryptedScreenshot == loadEncryptedScreenshot(store.files, screenshotId)
  IN IF encryptedScreenshot = Null \/ ~isOwner(encryptedScreenshot.metadata, userId)
     THEN [store |-> store, result |-> Bool(FALSE)]
     ELSE [store |-> deleteExpiredScreenshot(store, screenshotId), result |-> Bool(TRUE)]

\* SecureScreenshotManager.generateSecureScreenshot for the id that
\* generateScreenshotId gives: nothing is stored when the page cannot be
\* rendered or encrypted
generateSecureScreenshot(store, id, userId, retentionHours, now, rendered) ==
  IF ~rendered THEN [store |-> store, result |-> Null]
  ELSE [store |-> [files |-> store.files
                               \cup {EncryptedScreenshot(Metadata(id, userId, now + retentionHours),
                                                         ImageOf(id))},
                   index |-> updateMetadataIndex(store.index,
                                                 Metadata(id, userId, now + retentionHours), now)],
        result |-> Str(<<"/api/secure-screenshot/", id>>)]

StoreOf(state) == [files |-> state.files, index |-> state.index]

\* the state after a call: the store the call left, the clock, the ids
\* given out and the call
ManagerState(store, now, generated, op) ==
  [files |-> store.files, index |-> store.index, now |-> now, generated |-> generated,
   op |-> op]

NoCall == [name |-> "new", id |-> 0, userId |-> ""]
Call(name, id, userId) == [name |-> name, id |-> id, userId |-> userId]

InitScreenshots ==
  /\ pc = "getSecureScreenshotManager"
  /\ inp = ManagerState([files |-> {}, index |-> << >>], 0, << >>, NoCall)
  /\ out = << >>

TickHour ==
  /\ inp.now < MaxTime
  /\ inp' = [inp EXCEPT !.now = inp.now + 1, !.op = NoCall]
  /\ pc' = "clock"
  /\ out' = << >>

GenerateSecureScreenshot ==
  /\ Len(inp.generated) < MaxScreenshots
  /\ \E userId \in Users, retentionHours \in RetentionHours, rendered \in BOOLEAN :
       /\ inp' = ManagerState(
                   generateSecureScreenshot(StoreOf(inp), Len(inp.generated) + 1, userId,
                                            retentionHours, inp.now, rendered).store,
                   inp.now,
                   IF rendered
                   THEN Append(inp.generated,
                               Metadata(Len(inp.generated) + 1, userId, inp.now + retentionHours))
                   ELSE inp.generated,
                   Call("generateSecureScreenshot", Len(inp.generated) + 1, userId))
       /\ out' = <<generateSecureScreenshot(StoreOf(inp), Len(inp.generated) + 1, userId,
                                            retentionHours, inp.now, rendered).result>>
  /\ pc' = "generateSecureScreenshot"

GetSecureScreenshot ==
  /\ \E screenshotId \in 1..MaxScreenshots, userId \in Users, decrypts \in BOOLEAN :
       /\ inp' = ManagerState(
                   getSecureScreenshot(StoreOf(inp), screenshotId, userId, inp.now, decrypts).store,
                   inp.now, inp.generated, Call("getSecureScreenshot", screenshotId, userId))
       /\ out' = <<getSecureScreenshot(StoreOf(inp), screenshotId, userId, inp.now,
                                       decrypts).result>>
  /\ pc' = "getSecureScreenshot"

DeleteScreenshot ==
  /\ \E screenshotId \in 1..MaxScreenshots, userId \in Users :
       /\ inp' = ManagerState(deleteScreenshot(StoreOf(inp), screenshotId, userId).store,
                              inp.now, inp.generated,
                              Call("deleteScreenshot", screenshotId, userId))
       /\ out' = <<deleteScreenshot(StoreOf(inp), screenshotId, userId).result>>
  /\ pc' = "deleteScreenshot"

CleanupExpiredScreenshots ==
  /\ inp' = ManagerState(cleanupExpiredScreenshots(StoreOf(inp), inp.now).store, inp.now,
                         inp.generated, Call("cleanupExpiredScreenshots", 0, ""))
  /\ out' = <<Num(cleanupExpiredScreenshots(StoreOf(inp), inp.now).cleanedCount)>>
  /\ pc' = "cleanupExpiredScreenshots"

NextScreenshots ==
  \/ TickHour \/ GenerateSecureScreenshot \/ GetSecureScreenshot \/ DeleteScreenshot
  \/ CleanupExpiredScreenshots

SpecScreenshots == InitScreenshots /\ [][NextScreenshots]_vars

\* C25: a call of getSecureScreenshot that returns a buffer was made by the
\* user who generated that screenshot, at a time that is not after its
\* expiresAt, and the buffer is the image of that screenshot.
C25_OwnerBeforeExpiryOnly ==
  (pc = "getSecureScreenshot" /\ out[1] # Null)
    => /\ inp.op.id \in 1..Len(inp.generated)
       /\ inp.generated[inp.op.id].userId = inp.op.userId
       /\ inp.now <= inp.generated[inp.op.id].expiresAt
       /\ out[1].buffer = ImageOf(inp.op.id)

\* the owner reads a screenshot in the hour in which it expires, while a
\* screenshot of another user is stored
C25_OwnerReadsAtExpiry ==
  /\ pc = "getSecureScreenshot" /\ out[1] # Null
  /\ inp.now = inp.generated[inp.op.id].expiresAt /\ inp.now > 0
  /\ \E m \in inp.files : m.metadata.userId # inp.op.userId

\* C26: after cleanupExpiredScreenshots no file remains in storage whose
\* expiresAt is in the past.
C26_CleanupLeavesNoExpiredFile ==
  pc = "cleanupExpiredScreenshots" => \A f \in inp.files : ~(inp.now > f.metadata.expiresAt)


(***************************************************************************)
(* The page put on a match: findPatternMatches and getPageNumber on        *)
(* contents that hold one match of the first rule, at offsets around the   *)
(* multiples of the page length, and on contents with form feeds.          *)
(***************************************************************************)
MatchOffsets ==
  {n * avgCharsPerPage + d : n \in 0..MaxChunks, d \in (-Slack)..Slack} \cap Nat

\* a content of the given length whose character at the offset is a match
ContentWithMatch(len, offset) == [i \in 1..len |-> IF i = offset + 1 THEN "teh" ELSE "x"]

PagedContents ==
  UNION {{ContentWithMatch(len, offset) : len \in {l \in PageLengths : l > offset}} :
           offset \in MatchOffsets}
      \cup {<<"a", "\f", "teh">>, <<"teh", "\f", "x">>, <<"\f", "teh">>,
          <<"a", "\f", "b", "\f", "teh">>, <<"a", "\f", "b", "\f", "c", "teh", "\f", "d">>,
          <<"teh", "\f", "teh", "\f", "teh">>}

InitPaged ==
  /\ pc = "content"
  /\ inp \in [content : PagedContents]
  /\ out = << >>

\* findPatternMatches for the first rule, which calls getPageNumber for
\* every match
PageOfMatches ==
  /\ pc = "content"
  /\ out' = <<findPatternMatches(defaultRules[1], inp.content, splitIntoPages(inp.content))>>
  /\ pc' = "pageOfMatches"
  /\ UNCHANGED inp

\* processDocument: the pages end up on the issues
PagedProcessDocument ==
  /\ pc = "content"
  /\ Len(inp.content) <= 2 * Slack
  /\ out' = <<processDocument(defaultRules, inp.content, Word("a.pdf"))>>
  /\ pc' = "processDocument"
  /\ UNCHANGED inp

NextPaged == PageOfMatches \/ PagedProcessDocument

SpecPaged == InitPaged /\ [][NextPaged]_vars

\* the 1-based index of the page that holds the character at the offset:
\* the number of form feeds before it plus one, and without form feeds the
\* chunk of avgCharsPerPage characters it lies in
PageContaining(content, offset) ==
  IF NoFormFeed(content) THEN (offset \div avgCharsPerPage) + 1
  ELSE 1 + Cardinality({j \in 1..offset : content[j] = "\f"})

\* the positions of the matches of the first rule, in ascending order
MatchPositions(content) == Ascending({i \in 1..Len(content) : content[i] = "teh"})

\* C27: the page of every match is the page that holds the character at the
\* offset of the match.
C27_PageOfOffset ==
  /\ pc = "pageOfMatches"
       => \A n \in 1..Len(out[1].matches) :
            out[1].matches[n].page = PageContaining(inp.content, out[1].matches[n].index)
  /\ pc = "processDocument"
       => \A n \in 1..Len(out[1].issues.el) :
            out[1].issues.el[n].page
              = Num(PageContaining(inp.content, MatchPositions(inp.content)[n] - 1))


\* The pairs of marker lines that follow one another on a page, each as the
\* page and the line of its second marker, in scan order.
RECURSIVE AdjacentMarkers(_, _, _)
AdjacentMarkers(page, lines, i) ==
  IF i > Len(lines) THEN << >>
  ELSE (IF markerEnd(lines[i - 1]) > 0 /\ markerEnd(lines[i]) > 0
        THEN <<[page |-> page, line |-> lines[i]]>> ELSE << >>)
       \o AdjacentMarkers(page, lines, i + 1)

RECURSIVE AdjacentMarkerPairs(_, _)
AdjacentMarkerPairs(pages, p) ==
  IF p > Len(pages) THEN << >>
  ELSE AdjacentMarkers(p, SplitOn(pages[p], "\n"), 2) \o AdjacentMarkerPairs(pages, p + 1)

\* s is t with some elements left out
RECURSIVE IsSubsequence(_, _)
IsSubsequence(s, t) ==
  IF s = << >> THEN TRUE
  ELSE IF t = << >> THEN FALSE
  ELSE IF Head(s) = Head(t) THEN IsSubsequence(Tail(s), Tail(t))
  ELSE IsSubsequence(s, Tail(t))

\* C28: every issue of findNumberingGaps stands for a marker line that
\* directly follows another marker line of the same page, each such pair
\* giving at most one issue, in scan order: markers that a line without
\* marker or a page boundary separates are not compared, and a run of fewer
\* than two markers gives no issue.
C28_RunsJudgedIndependently ==
  pc = "findNumberingGaps" =>
    /\ IsArray(out[1])
    /\ IsSubsequence([n \in 1..Len(out[1].el) |->
                        [page |-> out[1].el[n].page.n, line |-> out[1].el[n].original.cs]],
                     AdjacentMarkerPairs(inp.pages, 1))

\* a list that starts again at 1 after a paragraph gave no issue
C28_RestartAfterParagraph ==
  /\ pc = "findNumberingGaps"
  /\ inp.pages = <<JoinLines(<<ListLine(<<"1">>), <<"text">>, ListLine(<<"1">>)>>)>>
  /\ out[1].el = << >>


\* the offsets at which a rule contributes, in ascending order: none when
\* the rule is disabled, the first one only when its expression is not global
ContributingOffsets(rule, content) ==
  IF ~rule.enabled \/ \A i \in 1..Len(content) : content[i] \notin rule.units THEN << >>
  ELSE IF rule.global
  THEN [n \in 1..Len(Ascending({i \in 1..Len(content) : content[i] \in rule.units})) |->
          Ascending({i \in 1..Len(content) : content[i] \in rule.units})[n] - 1]
  ELSE <<Ascending({i \in 1..Len(content) : content[i] \in rule.units})[1] - 1>>

\* type, matched text and page of the issues expected of the rules from
\* rule r on, rule by rule in the order of the list
RECURSIVE ExpectedEmission(_, _, _)
ExpectedEmission(rules, content, r) ==
  IF r > Len(rules) THEN << >>
  ELSE [n \in 1..Len(ContributingOffsets(rules[r], content)) |->
          [type |-> rules[r].type, id |-> rules[r].id,
           original |-> content[ContributingOffsets(rules[r], content)[n] + 1],
           page |-> getPageNumber(ContributingOffsets(rules[r], content)[n],
                                  splitIntoPages(content))]]
       \o ExpectedEmission(rules, content, r + 1)

\* type, rule, matched text and page of the issues of a result
Emission(result) ==
  [n \in 1..Len(result.issues.el) |->
     [type |-> result.issues.el[n].type.cs[1], id |-> result.issues.el[n].message.cs[1],
      original |-> result.issues.el[n].original.cs[1], page |-> result.issues.el[n].page.n]]

FirstWithId(rules, ruleId) ==
  CHOOSE i \in 1..Len(rules) : rules[i].id = ruleId /\ \A j \in 1..(i - 1) : rules[j].id # ruleId

\* C29: a call of processDocument leaves the rules as they are and returns
\* the issues of the rules that are enabled at the call, rule by rule in the
\* order of the list and by ascending offset within a rule; a call of
\* toggleRule sets the flag of the first rule of that id, which from then on
\* contributes or not accordingly, and leaves the rules of other ids as they
\* are; with an id no rule has it changes nothing.
C29_EnabledRulesInOrder ==
  [][/\ pc' = "processDocument"
          => /\ inp'.rules = inp.rules
             /\ Emission(out'[1]) = ExpectedEmission(inp.rules, inp'.content, 1)
     /\ pc' = "toggleRule"
          => /\ Len(inp'.rules) = Len(inp.rules)
             /\ \A i \in 1..Len(inp.rules) :
                  inp.rules[i].id # inp'.op.id => inp'.rules[i] = inp.rules[i]
             /\ (\E i \in 1..Len(inp.rules) : inp.rules[i].id = inp'.op.id)
                  => inp'.rules[FirstWithId(inp.rules, inp'.op.id)].enabled = inp'.op.enabled]_vars

\* an analysis after toggleRule('common_typos', false) of a content that
\* holds matches of that rule and of another one: only the other rule
\* contributed
C29_DisabledRuleSilent ==
  /\ pc = "processDocument"
  /\ inp.rules[1].id = "common_typos" /\ ~inp.rules[1].enabled
  /\ \E i \in 1..Len(inp.content) : inp.content[i] = "teh"
  /\ Len(out[1].issues.el) = 2
  /\ \A n \in 1..2 : out[1].issues.el[n].type = Word("logic_point")
  /\ out[1].issues.el[1].page = Num(1) /\ out[1].issues.el[2].page = Num(2)


====
